---- MODULE Spec2Model ----
(***************************************************************************)
(* Red-team / blue-team refinement loop of the deep-research workflow      *)
(* (src/src/research_agent_full.py) and the objectivity evaluator that     *)
(* drives it (src/src/red_team_evaluator.py).                              *)
(*                                                                         *)
(* Numbers.  Sub-scores (one_sided_score, source_diversity_score,          *)
(* quantitative_ratio, source_credibility_score) are integers in tenths:   *)
(* 5 stands for 0.5.  The overall objectivity score and the configured     *)
(* minimum score are integers in 1/10000: 7500 stands for 0.75.  With      *)
(* these units the weighted sum of the code is exact integer arithmetic.   *)
(***************************************************************************)
EXTENDS Integers, Sequences, FiniteSets, TLC

(***************************************************************************)
(* Bounds of the model.                                                    *)
(***************************************************************************)
\* largest MAX_REFINEMENT_ITERATIONS a session is configured with
MaxIterBound == 3
\* largest number of source URLs extract_sources_from_report finds
MaxSources == 1

(***************************************************************************)
(* JSON values as json.loads returns them.                                 *)
(*   a score field:  [t, v]    t = "num" (v in tenths), "str" (a string    *)
(*                   that is no number), "null", or "missing" (key absent) *)
(*   a list field:   [t, v, n] t = "list" (v its items), "str" (v its      *)
(*                   characters), "num" (n its value), "null", "missing"   *)
(*   a list item:    [t, k, v] t = "str" (v the text), "num" (v its        *)
(*                   decimal text), "dict" (one key k with string value v) *)
(***************************************************************************)
Num(n) == [t |-> "num", v |-> n]
NotANumber == [t |-> "str", v |-> 0]
NullScore == [t |-> "null", v |-> 0]
MissingScore == [t |-> "missing", v |-> 0]

JList(s) == [t |-> "list", v |-> s, n |-> 0]
JString(chars) == [t |-> "str", v |-> chars, n |-> 0]
JNumber(n) == [t |-> "num", v |-> << >>, n |-> n]
JNull == [t |-> "null", v |-> << >>, n |-> 0]
JMissing == [t |-> "missing", v |-> << >>, n |-> 0]

StrItem(s) == [t |-> "str", k |-> "", v |-> s]
NumItem(s) == [t |-> "num", k |-> "", v |-> s]
DictItem(key, s) == [t |-> "dict", k |-> key, v |-> s]

\* dict.get(key, default): the default only when the key is absent
Get(field, default) == IF field.t = "missing" THEN default ELSE field

\* Python truth value of a list-field value
Truthy(x) ==
    CASE x.t = "list" -> x.v # << >>
      [] x.t = "str" -> x.v # << >>
      [] x.t = "num" -> x.n # 0
      [] OTHER -> FALSE

\* len(x), iter(x) and x[:k] are defined for lists and strings only
Sized(x) == x.t \in {"list", "str"}

\* str(item)
PyStr(item) ==
    CASE item.t = "str" -> item.v
      [] item.t = "num" -> item.v
      [] OTHER -> "{'" \o item.k \o "': '" \o item.v \o "'}"

\* s[:k]
Take(s, k) == SubSeq(s, 1, IF Len(s) < k THEN Len(s) ELSE k)

\* [str(x) for x in s], as list items and as plain texts
Strings(s) == [i \in 1..Len(s) |-> StrItem(PyStr(s[i]))]
Texts(s) == [i \in 1..Len(s) |-> PyStr(s[i])]

(***************************************************************************)
(* BiasMetrics, SourceQualityMetrics: the dataclass defaults.              *)
(***************************************************************************)
BiasMetrics ==
    [one_sided_score |-> Num(0),
     missing_counter_evidence |-> JList(<< >>),
     confirmation_bias_indicators |-> JList(<< >>),
     source_diversity_score |-> Num(0),
     quantitative_ratio |-> Num(0)]

SourceQualityMetrics ==
    [total_sources |-> 0,
     primary_sources |-> 0,
     secondary_sources |-> 0,
     academic_sources |-> 0,
     source_credibility_score |-> 0,
     missing_citations |-> JList(<< >>)]

(***************************************************************************)
(* A generation response, as the sub-analysis sees it.                     *)
(*   kind = "fail"     the generation call raised                          *)
(*          "nojson"   the text holds no {...} span                        *)
(*          "badjson"  the {...} span is not valid JSON                    *)
(*          "json"     the span parsed to an object with the fields below  *)
(***************************************************************************)
BiasResponse(kind, o, mce, cbi, d, q) ==
    [kind |-> kind, one_sided_score |-> o, missing_counter_evidence |-> mce,
     confirmation_bias_indicators |-> cbi, source_diversity_score |-> d,
     quantitative_ratio |-> q]

SourceResponse(kind, total, primary, secondary, academic, cred, mc) ==
    [kind |-> kind, total_sources |-> total, primary_sources |-> primary,
     secondary_sources |-> secondary, academic_sources |-> academic,
     source_credibility_score |-> cred, missing_citations |-> mc]

ClaimResponse(kind, u, mce) ==
    [kind |-> kind, unsupported |-> u, missing_counter_evidence |-> mce]

(***************************************************************************)
(* RedTeamEvaluator._analyze_bias: the fields of the parsed object are     *)
(* stored as they came (no conversion); any parse failure falls back to    *)
(* BiasMetrics().                                                          *)
(***************************************************************************)
analyze_bias(resp) ==
    IF resp.kind = "json"
    THEN [one_sided_score |-> Get(resp.one_sided_score, Num(5)),
          missing_counter_evidence |-> Get(resp.missing_counter_evidence, JList(<< >>)),
          confirmation_bias_indicators |-> Get(resp.confirmation_bias_indicators, JList(<< >>)),
          source_diversity_score |-> Get(resp.source_diversity_score, Num(5)),
          quantitative_ratio |-> Get(resp.quantitative_ratio, Num(5))]
    ELSE BiasMetrics

(***************************************************************************)
(* RedTeamEvaluator._analyze_sources: int() and float() convert the        *)
(* numbers, a truthy missing_citations is rebuilt as a list of strings; a  *)
(* conversion that raises falls back to the basic analysis.                *)
(***************************************************************************)
\* int(x) / float(x) raise on a non-numeric string and on None
ConvertRaises(x) == x.t \in {"str", "null"}

analyze_sources_raises(resp) ==
    LET mc == Get(resp.missing_citations, JList(<< >>))
    IN  \/ (Truthy(mc) /\ ~Sized(mc))
        \/ ConvertRaises(Get(resp.total_sources, Num(0)))
        \/ ConvertRaises(Get(resp.primary_sources, Num(0)))
        \/ ConvertRaises(Get(resp.secondary_sources, Num(0)))
        \/ ConvertRaises(Get(resp.academic_sources, Num(0)))
        \/ ConvertRaises(Get(resp.source_credibility_score, Num(5)))

SourcesFallback(nsources) ==
    [SourceQualityMetrics EXCEPT !.total_sources = nsources,
                                 !.source_credibility_score = 5]

analyze_sources(resp, nsources) ==
    IF resp.kind = "json" /\ ~analyze_sources_raises(resp)
    THEN LET mc == Get(resp.missing_citations, JList(<< >>))
         IN  [total_sources |-> Get(resp.total_sources, Num(nsources)).v,
              primary_sources |-> Get(resp.primary_sources, Num(0)).v,
              secondary_sources |-> Get(resp.secondary_sources, Num(0)).v,
              academic_sources |-> Get(resp.academic_sources, Num(0)).v,
              source_credibility_score |-> Get(resp.source_credibility_score, Num(5)).v,
              missing_citations |->
                  IF Truthy(mc) THEN JList(Strings(mc.v))
                  ELSE mc]
    ELSE SourcesFallback(nsources)

(***************************************************************************)
(* RedTeamEvaluator._verify_claims: both lists are rebuilt item by item as *)
(* strings; an exception falls back to two empty lists.                    *)
(***************************************************************************)
\* str(item.get(first, item.get("text", str(item))))
CoerceItem(item, first) ==
    IF item.t = "dict" /\ item.k \in {first, "text"}
    THEN StrItem(item.v)
    ELSE StrItem(PyStr(item))

CoerceAll(s, first) == [i \in 1..Len(s) |-> CoerceItem(s[i], first)]

verify_claims_raises(resp) ==
    \/ (resp.unsupported.t # "missing" /\ ~Sized(resp.unsupported))
    \/ (resp.missing_counter_evidence.t # "missing"
        /\ ~Sized(resp.missing_counter_evidence))

verify_claims(resp) ==
    IF resp.kind = "json" /\ ~verify_claims_raises(resp)
    THEN [unsupported |->
              CoerceAll(resp.unsupported.v, "claim"),
          missing_counter_evidence |->
              CoerceAll(resp.missing_counter_evidence.v, "gap")]
    ELSE [unsupported |-> << >>, missing_counter_evidence |-> << >>]

(***************************************************************************)
(* RedTeamEvaluator._calculate_objectivity_score.  The arithmetic raises   *)
(* TypeError when a bias score is not a number (_analyze_bias stored it    *)
(* unconverted); the credibility is a float by construction.               *)
(***************************************************************************)
Min(a, b) == IF a < b THEN a ELSE b
Max(a, b) == IF a > b THEN a ELSE b

calculate_objectivity_score_raises(bias) ==
    \/ bias.one_sided_score.t # "num"
    \/ bias.source_diversity_score.t # "num"
    \/ bias.quantitative_ratio.t # "num"

\* as unsupported_penalty, without the cap
unsupported_penalty_uncapped(claims) == Len(claims.unsupported) * 5

\* min(len(unsupported) * 0.05, 0.2), in hundredths
unsupported_penalty(claims) == Min(Len(claims.unsupported) * 5, 20)

\* as calculate_objectivity_score, with one_sided_score weighted directly
calculate_objectivity_score_bias_direct(bias, sources, claims) ==
    LET bias_component == bias.one_sided_score.v * 4
        source_component == sources.source_credibility_score * 3
        diversity_component == bias.source_diversity_score.v * 2
        quantitative_component == bias.quantitative_ratio.v * 1
        score == (bias_component + source_component + diversity_component
                  + quantitative_component) * (100 - unsupported_penalty(claims))
    IN  Max(0, Min(10000, score))

calculate_objectivity_score(bias, sources, claims) ==
    LET bias_component == (10 - bias.one_sided_score.v) * 4
        source_component == sources.source_credibility_score * 3
        diversity_component == bias.source_diversity_score.v * 2
        quantitative_component == bias.quantitative_ratio.v * 1
        score == (bias_component + source_component + diversity_component
                  + quantitative_component) * (100 - unsupported_penalty(claims))
    IN  Max(0, Min(10000, score))

(***************************************************************************)
(* RedTeamEvaluator._generate_recommendations: one entry per rule that     *)
(* applies, the all-clear entry when none does.                            *)
(***************************************************************************)
Pick(cond, x) == IF cond THEN << x >> ELSE << >>

generate_recommendations(bias, sources, claims) ==
    LET recommendations ==
            Pick(bias.one_sided_score.v > 6, "High one-sided score")
            \o Pick(bias.source_diversity_score.v < 5, "Low source diversity")
            \o Pick(bias.quantitative_ratio.v < 3, "Low quantitative data")
            \o Pick(sources.source_credibility_score < 6, "Source quality concerns")
            \o Pick(Len(claims.unsupported) > 0, "unsupported claim(s) identified")
            \o Pick(Len(claims.missing_counter_evidence) > 0,
                    "area(s) need counter-evidence")
    IN  IF recommendations = << >>
        THEN << "Report shows good objectivity and balanced perspective." >>
        ELSE recommendations

(***************************************************************************)
(* RedTeamEvaluator.evaluate_report: the three sub-analyses in order, then *)
(* the score and the recommendations.  It raises when a generation call    *)
(* raises or when the scoring raises.                                      *)
(***************************************************************************)
GenerationFails(bresp, sresp, cresp) ==
    \/ bresp.kind = "fail"
    \/ sresp.kind = "fail"
    \/ cresp.kind = "fail"

evaluate_report_raises(bresp, sresp, cresp) ==
    \/ GenerationFails(bresp, sresp, cresp)
    \/ calculate_objectivity_score_raises(analyze_bias(bresp))

evaluate_report(bresp, sresp, cresp, nsources) ==
    LET bias_analysis == analyze_bias(bresp)
        source_analysis == analyze_sources(sresp, nsources)
        claim_verification == verify_claims(cresp)
    IN  [overall_score |->
             calculate_objectivity_score(bias_analysis, source_analysis,
                                         claim_verification),
         bias_metrics |-> bias_analysis,
         source_quality |-> source_analysis,
         unsupported_claims |-> claim_verification.unsupported,
         counter_evidence_gaps |-> claim_verification.missing_counter_evidence,
         recommendations |->
             generate_recommendations(bias_analysis, source_analysis,
                                      claim_verification)]

(***************************************************************************)
(* RedTeamEvaluator.generate_refinement_feedback and                       *)
(* _build_refinement_prompt.  A priority issue is                          *)
(* [severity, issue, n, evidence]: n the count printed in the issue text,  *)
(* evidence the attached claims / gaps / citations_needed.                 *)
(***************************************************************************)
Issue(severity, issue, n, evidence) ==
    [severity |-> severity, issue |-> issue, n |-> n, evidence |-> evidence]

\* as priority_issues, with every unsupported claim attached
priority_issues_all_claims(score) ==
    (IF score.overall_score < 6000
     THEN << Issue("critical", "Overall objectivity score is below acceptable threshold",
                   0, << >>) >>
     ELSE IF score.overall_score < 7500
     THEN << Issue("high", "Overall objectivity score needs improvement", 0, << >>) >>
     ELSE << >>)
    \o Pick(Len(score.unsupported_claims) > 0,
            Issue("high", "unsupported claims found", Len(score.unsupported_claims),
                  score.unsupported_claims))
    \o Pick(Len(score.counter_evidence_gaps) > 0,
            Issue("medium", "Missing counter-evidence or alternative perspectives", 0,
                  Take(score.counter_evidence_gaps, 3)))
    \o Pick(Len(score.source_quality.missing_citations.v) > 0,
            Issue("medium", "claims missing citations",
                  Len(score.source_quality.missing_citations.v),
                  Take(score.source_quality.missing_citations.v, 5)))

\* as priority_issues, with the score reported only below 0.5
priority_issues_below_half(score) ==
    (IF score.overall_score < 5000
     THEN << Issue("critical", "Overall objectivity score is below acceptable threshold",
                   0, << >>) >>
     ELSE << >>)
    \o Pick(Len(score.unsupported_claims) > 0,
            Issue("high", "unsupported claims found", Len(score.unsupported_claims),
                  Take(score.unsupported_claims, 5)))
    \o Pick(Len(score.counter_evidence_gaps) > 0,
            Issue("medium", "Missing counter-evidence or alternative perspectives", 0,
                  Take(score.counter_evidence_gaps, 3)))
    \o Pick(Len(score.source_quality.missing_citations.v) > 0,
            Issue("medium", "claims missing citations",
                  Len(score.source_quality.missing_citations.v),
                  Take(score.source_quality.missing_citations.v, 5)))

priority_issues(score) ==
    (IF score.overall_score < 6000
     THEN << Issue("critical", "Overall objectivity score is below acceptable threshold",
                   0, << >>) >>
     ELSE IF score.overall_score < 7500
     THEN << Issue("high", "Overall objectivity score needs improvement", 0, << >>) >>
     ELSE << >>)
    \o Pick(Len(score.unsupported_claims) > 0,
            Issue("high", "unsupported claims found", Len(score.unsupported_claims),
                  Take(score.unsupported_claims, 5)))
    \o Pick(Len(score.counter_evidence_gaps) > 0,
            Issue("medium", "Missing counter-evidence or alternative perspectives", 0,
                  Take(score.counter_evidence_gaps, 3)))
    \o Pick(Len(score.source_quality.missing_citations.v) > 0,
            Issue("medium", "claims missing citations",
                  Len(score.source_quality.missing_citations.v),
                  Take(score.source_quality.missing_citations.v, 5)))

\* as specific_suggestions, with the one-sidedness threshold included
specific_suggestions_inclusive(score) ==
    Pick(score.bias_metrics.one_sided_score.v >= 6,
         "Add alternative viewpoints and counter-arguments to balance the report")
    \o Pick(score.bias_metrics.quantitative_ratio.v < 3,
            "Include more quantitative data: specific numbers, statistics, dates, and metrics")
    \o Pick(score.source_quality.source_credibility_score < 6,
            "Prioritize primary sources and authoritative publications over secondary sources")
    \o Pick(score.bias_metrics.source_diversity_score.v < 5,
            "Include sources from diverse perspectives and viewpoints")

specific_suggestions(score) ==
    Pick(score.bias_metrics.one_sided_score.v > 6,
         "Add alternative viewpoints and counter-arguments to balance the report")
    \o Pick(score.bias_metrics.quantitative_ratio.v < 3,
            "Include more quantitative data: specific numbers, statistics, dates, and metrics")
    \o Pick(score.source_quality.source_credibility_score < 6,
            "Prioritize primary sources and authoritative publications over secondary sources")
    \o Pick(score.bias_metrics.source_diversity_score.v < 5,
            "Include sources from diverse perspectives and viewpoints")

missing_elements(score) ==
    (IF /\ score.bias_metrics.one_sided_score.v > 6
        /\ Truthy(score.bias_metrics.missing_counter_evidence)
     THEN Take(score.bias_metrics.missing_counter_evidence.v, 3)
     ELSE << >>)
    \o Pick(score.bias_metrics.quantitative_ratio.v < 3,
            StrItem("Quantitative metrics and statistics"))
    \o Pick(score.source_quality.source_credibility_score < 6,
            StrItem("High-credibility primary sources"))
    \o Pick(score.bias_metrics.source_diversity_score.v < 5,
            StrItem("Diverse source perspectives"))

\* the refinement prompt: what it prints of the score, the feedback and the report
build_refinement_prompt(score, issues, suggestions, elements, report) ==
    [overall_score |-> score.overall_score,
     target |-> 7500,
     issues |-> [j \in 1..Len(issues) |->
                    [severity |-> issues[j].severity, issue |-> issues[j].issue,
                     n |-> issues[j].n,
                     snippets |->
                         IF issues[j].issue = "unsupported claims found"
                         THEN Texts(Take(issues[j].evidence, 3))
                         ELSE IF issues[j].issue =
                                 "Missing counter-evidence or alternative perspectives"
                         THEN Texts(Take(issues[j].evidence, 2))
                         ELSE << >>]],
     suggestions |-> suggestions,
     missing_elements |-> { PyStr(elements[i]) : i \in 1..Len(elements) },
     recommendations |-> score.recommendations,
     report |-> report]

\* len() of a missing_citations that is no list, [:3] of a missing_counter_evidence
\* that is no list, set() over an unhashable (dict) missing element
generate_refinement_feedback_raises(score) ==
    \/ ~Sized(score.source_quality.missing_citations)
    \/ /\ score.bias_metrics.one_sided_score.v > 6
       /\ Truthy(score.bias_metrics.missing_counter_evidence)
       /\ ~Sized(score.bias_metrics.missing_counter_evidence)
    \/ \E i \in 1..Len(missing_elements(score)) : missing_elements(score)[i].t = "dict"

generate_refinement_feedback(score, report) ==
    [priority_issues |-> priority_issues(score),
     specific_suggestions |-> specific_suggestions(score),
     missing_elements |-> missing_elements(score),
     refinement_prompt |->
         build_refinement_prompt(score, priority_issues(score),
                                 specific_suggestions(score),
                                 missing_elements(score), report)]

(***************************************************************************)
(* RedTeamEvaluator.get_evaluation_summary and format_evaluation_report.   *)
(* Both take len() of / iterate the three list fields the analyses stored. *)
(***************************************************************************)
get_evaluation_summary_raises(score) ==
    \/ ~Sized(score.bias_metrics.missing_counter_evidence)
    \/ ~Sized(score.bias_metrics.confirmation_bias_indicators)
    \/ ~Sized(score.source_quality.missing_citations)

get_evaluation_summary(score) ==
    [overall_score |-> score.overall_score,
     missing_counter_evidence_count |-> Len(score.bias_metrics.missing_counter_evidence.v),
     unsupported_claims_count |-> Len(score.unsupported_claims),
     credibility_score |-> score.source_quality.source_credibility_score]

format_evaluation_report_raises(score) ==
    \/ Truthy(score.bias_metrics.missing_counter_evidence)
       /\ ~Sized(score.bias_metrics.missing_counter_evidence)
    \/ Truthy(score.bias_metrics.confirmation_bias_indicators)
       /\ ~Sized(score.bias_metrics.confirmation_bias_indicators)
    \/ Truthy(score.source_quality.missing_citations)
       /\ ~Sized(score.source_quality.missing_citations)

format_evaluation_report(score) ==
    [overall_score |-> score.overall_score,
     recommendations |-> score.recommendations]

(***************************************************************************)
(* The session: AgentState's feedback-loop fields, the environment that    *)
(* configures the loop, and the position in the workflow graph.            *)
(***************************************************************************)
VARIABLES
    pc,                         \* the graph node (or router) that runs next
    env,                        \* ENABLE_RED_TEAM_EVAL, RED_TEAM_FEEDBACK_LOOP,
                                \* MIN_OBJECTIVITY_SCORE, MAX_REFINEMENT_ITERATIONS
    final_report,               \* 0: the empty string; k > 0: the k-th text generated
    red_team_evaluation,        \* Absent, or the evaluation summary
    red_team_report,            \* Absent, or the formatted evaluation report
    red_team_feedback,          \* Absent, or the refinement feedback
    red_team_iteration_count,
    red_team_feedback_history,
    refinement_iterations,
    \* history of the run, for stating properties
    reports_generated,          \* number of non-empty report texts generated
    evaluated_report,           \* the report red_team_evaluation was computed from
    evaluation_runs,            \* executions of red_team_evaluation_node
    refinement_runs,            \* executions of refine_report_with_feedback
    cycle,                      \* what the last red_team_evaluation_node run did
    decision,                   \* the last verdict of should_refine_report
    \* the process around the session
    unparsable,                 \* names of the threshold variables of os.environ
                                \* whose text float() / int() cannot parse
    session,                    \* number of the query the driver is processing
    \* one call of a function of RedTeamEvaluator or of llm_factory
    args,                       \* the function and its arguments
    result,                     \* NotCalled, or what the call returned
    \* module state of search_factory
    CONFIG_PATH,                \* os.environ["CONFIG_PATH"]
    PROVIDER_REGISTRY,          \* backend -> provider
    PROVIDER_CACHE,             \* (config path, backend) -> provider
    SEARCH_CLIENT_CACHE,        \* (config path, stage, backend) -> client
    \* history of the search_factory calls, for stating properties
    clients_built,              \* number of client objects constructed so far
    build_count,                \* client key -> clients build_client made for
                                \* it since its cache entry was last dropped
    returned_clients,           \* client key -> clients get_search_client
                                \* returned for it since then
    last_call,                  \* the last search_factory call and its outcome
    \* module globals of deep_research.utils, filled at the first search
    search_provider,
    search_client,
    search_defaults

state == << final_report, red_team_evaluation, red_team_report, red_team_feedback,
            red_team_iteration_count, red_team_feedback_history,
            refinement_iterations >>

\* the variables of one research session
session_vars == << pc, env, final_report, red_team_evaluation, red_team_report,
                   red_team_feedback, red_team_iteration_count,
                   red_team_feedback_history, refinement_iterations,
                   reports_generated, evaluated_report, evaluation_runs,
                   refinement_runs, cycle, decision, unparsable >>

evaluator_call == << args, result >>

search_runtime == << search_provider, search_client, search_defaults >>

search_factory == << CONFIG_PATH, PROVIDER_REGISTRY, PROVIDER_CACHE,
                     SEARCH_CLIENT_CACHE, clients_built, build_count,
                     returned_clients, last_call, search_runtime >>

vars == << session_vars, session, evaluator_call, search_factory >>

\* a key the state does not hold
Absent == [absent |-> TRUE]

\* the values MIN_OBJECTIVITY_SCORE takes in the model (1/10000)
MinScores == {7500, 9000}

NotCalled == [kind |-> "not_called"]

NoCycle ==
    [outcome |-> "none", construction_failed |-> FALSE,
     bias_response |-> NotCalled, source_response |-> NotCalled,
     claim_response |-> NotCalled]

\* no call of a RedTeamEvaluator function is being observed
EvaluatorIdle ==
    /\ args = NotCalled
    /\ result = NotCalled

(***************************************************************************)
(* search_factory at import: both caches are empty and the registry holds  *)
(* the Tavily provider (register_provider("tavily", TavilyProvider())).    *)
(***************************************************************************)
\* the backend names a stage configuration may hold, lower-cased
Backends == {"tavily", "customsearch", "unknown"}

\* the value None
None == "None"

EmptyCache == [k \in {} |-> None]

RegistryAtImport == [b \in Backends |-> IF b = "tavily" THEN "TavilyProvider" ELSE None]

NoSearchCall == [fn |-> "none", outcome |-> "none"]

\* search_client = None, search_defaults = None
NoClient == [provider |-> None, id |-> 0]
NoDefaults == [defaults_of |-> None]

FactoryLoaded ==
    /\ CONFIG_PATH = "config.yml"
    /\ PROVIDER_REGISTRY = RegistryAtImport
    /\ PROVIDER_CACHE = EmptyCache
    /\ SEARCH_CLIENT_CACHE = EmptyCache
    /\ clients_built = 0
    /\ build_count = EmptyCache
    /\ returned_clients = EmptyCache
    /\ last_call = NoSearchCall
    /\ search_provider = None
    /\ search_client = NoClient
    /\ search_defaults = NoDefaults

Init ==
    /\ pc = "final_report_generation"
    /\ env \in [ENABLE_RED_TEAM_EVAL : BOOLEAN,
                RED_TEAM_FEEDBACK_LOOP : BOOLEAN,
                MIN_OBJECTIVITY_SCORE : MinScores,
                MAX_REFINEMENT_ITERATIONS : 0..MaxIterBound]
    /\ final_report = 0
    /\ red_team_evaluation = Absent
    /\ red_team_report = Absent
    /\ red_team_feedback = Absent
    /\ red_team_iteration_count = 0
    /\ red_team_feedback_history = << >>
    /\ refinement_iterations = 0
    /\ reports_generated = 0
    /\ evaluated_report = 0
    /\ evaluation_runs = 0
    /\ refinement_runs = 0
    /\ cycle = NoCycle
    /\ decision = "none"
    /\ unparsable = {}
    /\ session = 1
    /\ EvaluatorIdle
    /\ FactoryLoaded

\* what a call of the writer model does: it raises, or returns a text
WriterOutcomes == {"raises", "empty", "text"}

(***************************************************************************)
(* final_report_generation: the writer's text becomes final_report; an     *)
(* exception of the writer leaves the node and ends the graph run.         *)
(***************************************************************************)
final_report_generation ==
    /\ pc = "final_report_generation"
    /\ \E outcome \in WriterOutcomes :
          CASE outcome = "raises" ->
                   /\ pc' = "raised"
                   /\ UNCHANGED << final_report, reports_generated >>
            [] outcome = "empty" ->
                   /\ pc' = "red_team_evaluation"
                   /\ final_report' = 0
                   /\ UNCHANGED reports_generated
            [] OTHER ->
                   /\ pc' = "red_team_evaluation"
                   /\ final_report' = reports_generated + 1
                   /\ reports_generated' = reports_generated + 1
    /\ UNCHANGED << env, red_team_evaluation, red_team_report, red_team_feedback,
                    red_team_iteration_count, red_team_feedback_history,
                    refinement_iterations, evaluated_report, evaluation_runs,
                    refinement_runs, cycle, decision >>
    /\ UNCHANGED << unparsable, session, evaluator_call, search_factory >>

(***************************************************************************)
(* The generation responses the evaluation cycles of the model receive.    *)
(***************************************************************************)
BiasFail == BiasResponse("fail", MissingScore, JMissing, JMissing, MissingScore, MissingScore)
BiasNoJson == BiasResponse("nojson", MissingScore, JMissing, JMissing, MissingScore, MissingScore)
\* balanced report; the quantitative_ratio key is absent
BiasBalanced == BiasResponse("json", Num(0), JList(<< >>), JList(<< >>), Num(10), MissingScore)
\* one-sided report
BiasOneSided ==
    BiasResponse("json", Num(9), JList(<< StrItem("counter-argument") >>),
                 JList(<< >>), Num(3), Num(2))
\* "one_sided_score": "high"
BiasWrongType == BiasResponse("json", NotANumber, JList(<< >>), JList(<< >>), Num(9), Num(9))

BiasResponses == {BiasFail, BiasNoJson, BiasBalanced, BiasOneSided, BiasWrongType}

SourceFail ==
    SourceResponse("fail", MissingScore, MissingScore, MissingScore, MissingScore,
                   MissingScore, JMissing)
SourceBadJson ==
    SourceResponse("badjson", MissingScore, MissingScore, MissingScore, MissingScore,
                   MissingScore, JMissing)
SourceParsed ==
    SourceResponse("json", Num(3), Num(1), Num(2), Num(0), Num(5), JList(<< >>))
\* "missing_citations": null
SourceNullCitations ==
    SourceResponse("json", Num(3), Num(1), Num(2), Num(0), Num(5), JNull)

SourceResponses == {SourceFail, SourceBadJson, SourceParsed, SourceNullCitations}

ClaimFail == ClaimResponse("fail", JMissing, JMissing)
ClaimOneUnsupported ==
    ClaimResponse("json", JList(<< DictItem("claim", "x") >>), JMissing)

ClaimResponses == {ClaimFail, ClaimOneUnsupported}

(***************************************************************************)
(* AgentState.red_team_feedback_history is Annotated[list, operator.add]:  *)
(* the graph merges a node's update into the field by list concatenation.  *)
(***************************************************************************)
merge_history_overwrite(history, update) == update

\* as merge_history, with the update put in front
merge_history_prepend(history, update) == update \o history

merge_history(history, update) == history \o update

(***************************************************************************)
(* red_team_evaluation_node.  Everything after the two early returns runs  *)
(* inside one try: an exception of the constructor, of evaluate_report, of *)
(* generate_refinement_feedback, of get_evaluation_summary or of           *)
(* format_evaluation_report makes the node return the empty update.        *)
(***************************************************************************)
\* the calls evaluate_report makes: a sub-analysis after a failed one is not called
Called(bresp, sresp, cresp, ctor_ok) ==
    [bias_response |-> IF ctor_ok THEN bresp ELSE NotCalled,
     source_response |-> IF ctor_ok /\ bresp.kind # "fail" THEN sresp ELSE NotCalled,
     claim_response |->
         IF ctor_ok /\ bresp.kind # "fail" /\ sresp.kind # "fail"
         THEN cresp ELSE NotCalled]

\* as node_raises, with a failed claim-verification call swallowed
node_raises_claims_swallowed(bresp, sresp, cresp, nsources, ctor_ok) ==
    \/ ~ctor_ok
    \/ bresp.kind = "fail"
    \/ sresp.kind = "fail"
    \/ calculate_objectivity_score_raises(analyze_bias(bresp))
    \/ LET score == evaluate_report(bresp, sresp, cresp, nsources)
       IN  \/ generate_refinement_feedback_raises(score)
           \/ get_evaluation_summary_raises(score)
           \/ format_evaluation_report_raises(score)

node_raises(bresp, sresp, cresp, nsources, ctor_ok) ==
    \/ ~ctor_ok
    \/ evaluate_report_raises(bresp, sresp, cresp)
    \/ LET score == evaluate_report(bresp, sresp, cresp, nsources)
       IN  \/ generate_refinement_feedback_raises(score)
           \/ get_evaluation_summary_raises(score)
           \/ format_evaluation_report_raises(score)

red_team_evaluation_node ==
    /\ pc = "red_team_evaluation"
    /\ pc' = "should_refine_report"
    /\ evaluation_runs' = evaluation_runs + 1
    /\ IF ~env.ENABLE_RED_TEAM_EVAL
       THEN /\ cycle' = [NoCycle EXCEPT !.outcome = "disabled"]
            /\ UNCHANGED << state, evaluated_report >>
       ELSE IF final_report = 0
       THEN /\ cycle' = [NoCycle EXCEPT !.outcome = "no_report"]
            /\ UNCHANGED << state, evaluated_report >>
       ELSE \E ctor_ok \in BOOLEAN :
            \E bresp \in IF ctor_ok THEN BiasResponses ELSE {BiasFail} :
            \E sresp \in IF ctor_ok /\ bresp.kind # "fail"
                          THEN SourceResponses ELSE {SourceFail} :
            \E cresp \in IF ctor_ok /\ bresp.kind # "fail" /\ sresp.kind # "fail"
                          THEN ClaimResponses ELSE {ClaimFail} :
            \E nsources \in IF ctor_ok /\ bresp.kind # "fail"
                             THEN 0..MaxSources ELSE {0} :
            LET current_iteration == red_team_iteration_count + 1
                called == Called(bresp, sresp, cresp, ctor_ok)
            IN  IF node_raises(bresp, sresp, cresp, nsources, ctor_ok)
                THEN /\ cycle' = [outcome |-> "failed",
                                  construction_failed |-> ~ctor_ok]
                                 @@ called
                     /\ UNCHANGED << state, evaluated_report >>
                ELSE LET score == evaluate_report(bresp, sresp, cresp, nsources)
                         feedback == generate_refinement_feedback(score, final_report)
                         new_history_entry ==
                             [iteration |-> current_iteration,
                              score |-> score.overall_score,
                              priority_issues_count |-> Len(feedback.priority_issues),
                              suggestions_count |-> Len(feedback.specific_suggestions)]
                     IN  /\ red_team_evaluation' = get_evaluation_summary(score)
                         /\ red_team_report' = format_evaluation_report(score)
                         /\ red_team_feedback' = feedback
                         /\ red_team_iteration_count' = current_iteration
                         /\ red_team_feedback_history' =
                                merge_history(red_team_feedback_history,
                                              << new_history_entry >>)
                         /\ evaluated_report' = final_report
                         /\ cycle' = [outcome |-> "scored",
                                      construction_failed |-> FALSE]
                                     @@ called
                         /\ UNCHANGED << final_report, refinement_iterations >>
    /\ UNCHANGED << env, reports_generated, refinement_runs, decision >>
    /\ UNCHANGED << unparsable, session, evaluator_call, search_factory >>

(***************************************************************************)
(* should_refine_report, the router of the conditional edge.               *)
(***************************************************************************)
\* as should_refine_report, with the iteration cap compared by >
should_refine_report_cap_off_by_one(e, evaluation, current_iterations) ==
    IF ~e.ENABLE_RED_TEAM_EVAL THEN "finalize_report"
    ELSE IF ~e.RED_TEAM_FEEDBACK_LOOP THEN "finalize_report"
    ELSE IF evaluation = Absent THEN "finalize_report"
    ELSE IF evaluation.overall_score >= e.MIN_OBJECTIVITY_SCORE THEN "finalize_report"
    ELSE IF current_iterations > e.MAX_REFINEMENT_ITERATIONS THEN "finalize_report"
    ELSE "refine_report"

\* as should_refine_report, with the score compared by >
should_refine_report_strict_score(e, evaluation, current_iterations) ==
    IF ~e.ENABLE_RED_TEAM_EVAL THEN "finalize_report"
    ELSE IF ~e.RED_TEAM_FEEDBACK_LOOP THEN "finalize_report"
    ELSE IF evaluation = Absent THEN "finalize_report"
    ELSE IF evaluation.overall_score > e.MIN_OBJECTIVITY_SCORE THEN "finalize_report"
    ELSE IF current_iterations >= e.MAX_REFINEMENT_ITERATIONS THEN "finalize_report"
    ELSE "refine_report"

\* as should_refine_report, with a missing evaluation taken for a score of 0
should_refine_report_unscored_is_low(e, evaluation, current_iterations) ==
    IF ~e.ENABLE_RED_TEAM_EVAL THEN "finalize_report"
    ELSE IF ~e.RED_TEAM_FEEDBACK_LOOP THEN "finalize_report"
    ELSE IF evaluation # Absent
            /\ evaluation.overall_score >= e.MIN_OBJECTIVITY_SCORE
    THEN "finalize_report"
    ELSE IF current_iterations >= e.MAX_REFINEMENT_ITERATIONS THEN "finalize_report"
    ELSE "refine_report"

should_refine_report(e, evaluation, current_iterations) ==
    IF ~e.ENABLE_RED_TEAM_EVAL THEN "finalize_report"
    ELSE IF ~e.RED_TEAM_FEEDBACK_LOOP THEN "finalize_report"
    ELSE IF evaluation = Absent THEN "finalize_report"
    ELSE IF evaluation.overall_score >= e.MIN_OBJECTIVITY_SCORE THEN "finalize_report"
    ELSE IF current_iterations >= e.MAX_REFINEMENT_ITERATIONS THEN "finalize_report"
    ELSE "refine_report"

\* float(os.getenv("MIN_OBJECTIVITY_SCORE", "0.75")) and
\* int(os.getenv("MAX_REFINEMENT_ITERATIONS", "3")) are evaluated once the three
\* early returns are passed; they raise ValueError on a text that is no number
should_refine_report_raises(e, evaluation, bad) ==
    /\ e.ENABLE_RED_TEAM_EVAL
    /\ e.RED_TEAM_FEEDBACK_LOOP
    /\ evaluation # Absent
    /\ bad # {}

route ==
    /\ pc = "should_refine_report"
    /\ IF should_refine_report_raises(env, red_team_evaluation, unparsable)
       THEN /\ pc' = "raised"
            /\ decision' = "ValueError"
       ELSE /\ decision' = should_refine_report(env, red_team_evaluation,
                                                refinement_iterations)
            /\ pc' = IF decision' = "refine_report" THEN "refine_report" ELSE "END"
    /\ UNCHANGED << env, state, reports_generated, evaluated_report,
                    evaluation_runs, refinement_runs, cycle >>
    /\ UNCHANGED << unparsable, session, evaluator_call, search_factory >>

(***************************************************************************)
(* refine_report_with_feedback: the writer is called with the stored       *)
(* refinement prompt; its text replaces final_report.  An exception of the *)
(* writer leaves the node and ends the graph run.                          *)
(***************************************************************************)
refine_report_with_feedback ==
    /\ pc = "refine_report"
    /\ refinement_runs' = refinement_runs + 1
    /\ LET current_iteration == refinement_iterations + 1
       IN  IF red_team_feedback = Absent
           THEN \* no refinement prompt: the report is kept, the counter moves
                /\ pc' = "red_team_evaluation"
                /\ refinement_iterations' = current_iteration
                /\ UNCHANGED << final_report, reports_generated >>
           ELSE \E outcome \in WriterOutcomes :
                CASE outcome = "raises" ->
                         /\ pc' = "raised"
                         /\ UNCHANGED << final_report, refinement_iterations,
                                         reports_generated >>
                  [] outcome = "empty" ->
                         /\ pc' = "red_team_evaluation"
                         /\ final_report' = 0
                         /\ refinement_iterations' = current_iteration
                         /\ UNCHANGED reports_generated
                  [] OTHER ->
                         /\ pc' = "red_team_evaluation"
                         /\ final_report' = reports_generated + 1
                         /\ reports_generated' = reports_generated + 1
                         /\ refinement_iterations' = current_iteration
    /\ UNCHANGED << env, red_team_evaluation, red_team_report, red_team_feedback,
                    red_team_iteration_count, red_team_feedback_history,
                    evaluated_report, evaluation_runs, cycle, decision >>
    /\ UNCHANGED << unparsable, session, evaluator_call, search_factory >>

\* the nodes the graph runs before final_report_generation: clarify_with_user,
\* write_research_brief, write_draft_report, supervisor_subgraph
PreLoopSteps == 4

\* the recursion_limit values the drivers configure
RecursionLimits == {15, 20, 50}

\* the nodes the graph has run so far (the router is a conditional edge, not
\* a node)
TopLevelSteps ==
    PreLoopSteps + (IF pc = "final_report_generation" THEN 0 ELSE 1)
    + evaluation_runs + refinement_runs

Next ==
    \/ final_report_generation
    \/ red_team_evaluation_node
    \/ route
    \/ refine_report_with_feedback

Spec == Init /\ [][Next]_vars

(***************************************************************************)
(* The router alone: should_refine_report applied to every combination of  *)
(* the flags, the thresholds, a present or absent evaluation and the       *)
(* refinement counter.                                                     *)
(***************************************************************************)
\* overall scores of the evaluation summaries the router is applied to (1/10000)
DecideScores == {2565, 7500, 7600, 9000}

DecideInit ==
    /\ pc = "should_refine_report"
    /\ env \in [ENABLE_RED_TEAM_EVAL : BOOLEAN,
                RED_TEAM_FEEDBACK_LOOP : BOOLEAN,
                MIN_OBJECTIVITY_SCORE : MinScores,
                MAX_REFINEMENT_ITERATIONS : 0..MaxIterBound]
    /\ final_report = 1
    /\ red_team_evaluation \in
           {Absent} \cup
           {[overall_score |-> sc, missing_counter_evidence_count |-> 0,
             unsupported_claims_count |-> 0, credibility_score |-> 5] :
                sc \in DecideScores}
    /\ red_team_report = Absent
    /\ red_team_feedback = Absent
    /\ red_team_iteration_count = 0
    /\ red_team_feedback_history = << >>
    /\ refinement_iterations \in 0..MaxIterBound
    /\ reports_generated = 1
    /\ evaluated_report = 0
    /\ evaluation_runs = 0
    /\ refinement_runs = 0
    /\ cycle = NoCycle
    /\ decision = "none"
    /\ unparsable = {}
    /\ session = 1
    /\ EvaluatorIdle
    /\ FactoryLoaded

DecideNext == route

DecideSpec == DecideInit /\ [][DecideNext]_vars

(***************************************************************************)
(* A session of a process whose threshold variables may hold a text that   *)
(* is no number.  Building the graph (deep_researcher_builder) reads no    *)
(* threshold: the variables are read by should_refine_report only.         *)
(***************************************************************************)
ThresholdVariables == {"MIN_OBJECTIVITY_SCORE", "MAX_REFINEMENT_ITERATIONS"}

ConfigInit ==
    /\ pc = "final_report_generation"
    /\ env \in [ENABLE_RED_TEAM_EVAL : BOOLEAN,
                RED_TEAM_FEEDBACK_LOOP : BOOLEAN,
                MIN_OBJECTIVITY_SCORE : {7500},
                MAX_REFINEMENT_ITERATIONS : {1}]
    /\ unparsable \in SUBSET ThresholdVariables
    /\ final_report = 0
    /\ red_team_evaluation = Absent
    /\ red_team_report = Absent
    /\ red_team_feedback = Absent
    /\ red_team_iteration_count = 0
    /\ red_team_feedback_history = << >>
    /\ refinement_iterations = 0
    /\ reports_generated = 0
    /\ evaluated_report = 0
    /\ evaluation_runs = 0
    /\ refinement_runs = 0
    /\ cycle = NoCycle
    /\ decision = "none"
    /\ session = 1
    /\ EvaluatorIdle
    /\ FactoryLoaded

ConfigSpec == ConfigInit /\ [][Next]_vars

(***************************************************************************)
(* The batch driver (thinkdepthai_deepresearch.py): one compiled graph     *)
(* with one InMemorySaver checkpointer for the whole process, and main()   *)
(* invoking it for every query under the same thread_id "1".  The          *)
(* checkpointer keeps the state of a thread between invocations: the       *)
(* input {"messages": [...]} of the next query is merged into the saved    *)
(* state, whose other keys stay as the previous run left them.  main()     *)
(* catches an exception of the run and the loop goes on to the next query. *)
(***************************************************************************)
\* number of queries the driver processes
MaxQueries == 2

main ==
    /\ pc \in {"END", "raised"}
    /\ session < MaxQueries
    /\ session' = session + 1
    /\ pc' = "final_report_generation"
    /\ evaluation_runs' = 0
    /\ refinement_runs' = 0
    /\ cycle' = NoCycle
    /\ decision' = "none"
    /\ UNCHANGED << env, state, reports_generated, evaluated_report, unparsable,
                    evaluator_call, search_factory >>

BatchNext ==
    \/ final_report_generation
    \/ red_team_evaluation_node
    \/ route
    \/ refine_report_with_feedback
    \/ main

\* the first query of the batch, the process configured with the default
\* minimum score and a cap of at most 2 refinements
BatchInit ==
    /\ Init
    /\ env.MIN_OBJECTIVITY_SCORE = 7500
    /\ env.MAX_REFINEMENT_ITERATIONS <= 2

BatchSpec == BatchInit /\ [][BatchNext]_vars

(***************************************************************************)
(* The functions of RedTeamEvaluator called on their own: _verify_claims   *)
(* on a parsed response, _calculate_objectivity_score on three analyses,   *)
(* generate_refinement_feedback on a score evaluate_report produced.       *)
(***************************************************************************)
\* longest list of a claim-verification response
MaxItems == 2
\* largest number of unsupported claims a score is computed for
MaxUnsupported == 10
\* longest list of claims / citations handed to the feedback synthesis
MaxClaims == 6

\* no research session is running
SessionIdle ==
    /\ pc = "idle"
    /\ env = [ENABLE_RED_TEAM_EVAL |-> TRUE, RED_TEAM_FEEDBACK_LOOP |-> TRUE,
              MIN_OBJECTIVITY_SCORE |-> 7500, MAX_REFINEMENT_ITERATIONS |-> 3]
    /\ final_report = 0
    /\ red_team_evaluation = Absent
    /\ red_team_report = Absent
    /\ red_team_feedback = Absent
    /\ red_team_iteration_count = 0
    /\ red_team_feedback_history = << >>
    /\ refinement_iterations = 0
    /\ reports_generated = 0
    /\ evaluated_report = 0
    /\ evaluation_runs = 0
    /\ refinement_runs = 0
    /\ cycle = NoCycle
    /\ decision = "none"
    /\ unparsable = {}
    /\ session = 1

SeqsUpTo(S, n) == UNION { [1..k -> S] : k \in 0..n }

\* elements of the "unsupported" list of a response
UnsupportedItems ==
    {StrItem("plain string"), DictItem("claim", "x"), DictItem("gap", "y"),
     DictItem("text", "z"), DictItem("location", "p3"), NumItem("42")}

\* elements of the "missing_counter_evidence" list of a response
GapItems == {StrItem("plain string"), DictItem("gap", "y"), DictItem("claim", "x")}

ListFields(items) ==
    { JList(l) : l \in SeqsUpTo(items, MaxItems) } \cup {JMissing, JNumber(5)}

VerifyCalls ==
    { [fn |-> "_verify_claims", response |-> ClaimResponse("json", u, m)] :
          u \in ListFields(UnsupportedItems), m \in ListFields(GapItems) }

\* sub-scores in tenths, inside and outside [0, 1]
SubScores == {-10, 0, 5, 10, 20}

\* n claims
Claims(n) == [i \in 1..n |-> StrItem("claim")]

ScoreCalls ==
    { [fn |-> "_calculate_objectivity_score",
       bias |-> [BiasMetrics EXCEPT !.one_sided_score = Num(o),
                                    !.source_diversity_score = Num(d),
                                    !.quantitative_ratio = Num(q)],
       sources |-> [SourceQualityMetrics EXCEPT !.source_credibility_score = c],
       claims |-> [unsupported |-> Claims(n), missing_counter_evidence |-> << >>]] :
          o \in SubScores, d \in SubScores, q \in SubScores, c \in SubScores,
          n \in 0..MaxUnsupported }

Digits == << "1", "2", "3", "4", "5", "6", "7", "8", "9" >>

\* n different texts
Numbered(prefix, n) == [i \in 1..n |-> StrItem(prefix \o Digits[i])]

\* what the bias analysis reports as missing counter-evidence
CounterEvidenceLists ==
    {<< >>,
     << StrItem("a") >>,
     << StrItem("a"), StrItem("a") >>,
     << StrItem("a"), StrItem("b"), StrItem("c"), StrItem("d") >>,
     << StrItem("Quantitative metrics and statistics") >>}

FeedbackCalls ==
    { [fn |-> "generate_refinement_feedback",
       score |->
           evaluate_report(
               BiasResponse("json", Num(o), JList(mce), JList(<< >>), Num(d), Num(q)),
               SourceResponse("json", Num(3), Num(1), Num(2), Num(0), Num(c),
                              JList(Numbered("citation ", nc))),
               ClaimResponse("json", JList(Numbered("claim ", nu)),
                             JList(Numbered("gap ", ng))),
               0),
       report |-> 1] :
          o \in {0, 6, 7}, d \in {0, 4, 5, 10}, q \in {0, 2, 3, 5}, c \in {5, 6},
          mce \in CounterEvidenceLists,
          nu \in {0, 1, MaxClaims - 1, MaxClaims},
          ng \in {0, MaxClaims - 3, MaxClaims - 2},
          nc \in {0, MaxClaims - 1, MaxClaims} }

\* list fields of a parsed response: absent, empty, or one element that is
\* a string, a number or a structured object
ParsedLists ==
    {JMissing, JList(<< >>), JList(<< StrItem("plain string") >>),
     JList(<< NumItem("42") >>), JList(<< DictItem("gap", "y") >>)}

EvaluateCalls ==
    { [fn |-> "evaluate_report",
       bias_response |-> BiasResponse("json", Num(3), mce, cbi, Num(6), Num(4)),
       source_response |->
           SourceResponse("json", Num(3), Num(1), Num(2), Num(0), Num(5), mc),
       claim_response |-> ClaimResponse("json", u, gaps),
       nsources |-> 0] :
          mce \in ParsedLists, cbi \in ParsedLists, mc \in ParsedLists,
          u \in ParsedLists, gaps \in ParsedLists }

EvaluatorInit ==
    /\ SessionIdle
    /\ FactoryLoaded
    /\ args \in VerifyCalls \cup ScoreCalls \cup FeedbackCalls \cup EvaluateCalls
    /\ result = NotCalled

call_verify_claims ==
    /\ args.fn = "_verify_claims"
    /\ result = NotCalled
    /\ result' = verify_claims(args.response)
    /\ UNCHANGED << session_vars, session, args, search_factory >>

call_calculate_objectivity_score ==
    /\ args.fn = "_calculate_objectivity_score"
    /\ result = NotCalled
    /\ result' = [overall_score |->
                      calculate_objectivity_score(args.bias, args.sources, args.claims)]
    /\ UNCHANGED << session_vars, session, args, search_factory >>

call_generate_refinement_feedback ==
    /\ args.fn = "generate_refinement_feedback"
    /\ result = NotCalled
    /\ ~generate_refinement_feedback_raises(args.score)
    /\ result' = generate_refinement_feedback(args.score, args.report)
    /\ UNCHANGED << session_vars, session, args, search_factory >>

call_evaluate_report ==
    /\ args.fn = "evaluate_report"
    /\ result = NotCalled
    /\ ~evaluate_report_raises(args.bias_response, args.source_response,
                               args.claim_response)
    /\ result' = evaluate_report(args.bias_response, args.source_response,
                                 args.claim_response, args.nsources)
    /\ UNCHANGED << session_vars, session, args, search_factory >>

EvaluatorNext ==
    \/ call_evaluate_report
    \/ call_verify_claims
    \/ call_calculate_objectivity_score
    \/ call_generate_refinement_feedback

EvaluatorSpec == EvaluatorInit /\ [][EvaluatorNext]_vars

(***************************************************************************)
(* deep_research.search_factory: the provider registry, the provider cache *)
(* and the client cache, and the functions that read and change them.      *)
(***************************************************************************)
\* number of client objects the providers construct in a run of the model
MaxBuilds == 3

DEFAULT_STAGE == "unit_test"

ConfigPaths == {"config.yml", "alt.yml"}

\* the stage names the callers pass; None: no stage given
Stages == {"prod", "dev", "bare", "broken", None}

\* str.lower() on the backend names that occur
Lower(name) == IF name = "CustomSearch" THEN "customsearch" ELSE name

\* the "search" block of a stage of a configuration file:
\*   present  the stage has a non-empty search block
\*   backend  its "backend" value, None when the key is absent
\*   mapping  the block of the backend is a mapping (or absent)
SearchBlock(present, backend, mapping) ==
    [present |-> present, backend |-> backend, mapping |-> mapping]

\* load_config(stage_name)["search"] under the configuration file at path
\* config.yml holds the stages unit_test (no backend key), prod, dev, broken
\* and bare (no search block); alt.yml holds the stage prod only
load_search_cfg(path, stage_name) ==
    CASE path = "config.yml" /\ stage_name = "unit_test" -> SearchBlock(TRUE, None, TRUE)
      [] path = "config.yml" /\ stage_name = "prod" ->
             SearchBlock(TRUE, "CustomSearch", TRUE)
      [] path = "config.yml" /\ stage_name = "dev" -> SearchBlock(TRUE, "unknown", TRUE)
      [] path = "config.yml" /\ stage_name = "broken" ->
             SearchBlock(TRUE, "tavily", FALSE)
      [] path = "alt.yml" /\ stage_name = "prod" -> SearchBlock(TRUE, "tavily", TRUE)
      [] OTHER -> SearchBlock(FALSE, None, TRUE)

resolve_stage(stage) == IF stage = None THEN DEFAULT_STAGE ELSE stage

\* no override_provider is being followed
NoOverride == [backend |-> None, provider |-> None, dropped_providers |-> 0,
               dropped_clients |-> 0]

\* the last override_provider that cleared the caches, as long as only
\* get_search_client / get_search_provider / get_search_defaults calls and
\* searches followed
Overridden ==
    IF last_call.fn = "override_provider"
    THEN IF last_call.cleared
         THEN [backend |-> last_call.backend, provider |-> last_call.provider,
               dropped_providers |-> last_call.dropped_providers,
               dropped_clients |-> last_call.dropped_clients]
         ELSE NoOverride
    ELSE IF last_call.fn \in {"get_search_client", "get_search_provider",
                              "get_search_defaults", "tavily_search_multiple"}
    THEN last_call.after
    ELSE NoOverride

\* a call that raised
Raised(fn, error, reason) ==
    [fn |-> fn, outcome |-> error, reason |-> reason, after |-> Overridden]

\* a call that returned
Returned(fn, backend, value) ==
    [fn |-> fn, outcome |-> "returned", backend |-> backend, value |-> value,
     after |-> Overridden]

\* the configuration file at path has a section for the stage
stage_in_file(path, stage_name) == path = "config.yml" \/ stage_name = "prod"

\* _get_search_cfg raises: KeyError out of load_config when the file has no
\* such stage, SearchConfigError when the stage has no search block
get_search_cfg_raises(stage) ==
    \/ ~stage_in_file(CONFIG_PATH, resolve_stage(stage))
    \/ ~load_search_cfg(CONFIG_PATH, resolve_stage(stage)).present

get_search_cfg_error(fn, stage) ==
    IF ~stage_in_file(CONFIG_PATH, resolve_stage(stage))
    THEN Raised(fn, "KeyError", "no such stage")
    ELSE Raised(fn, "SearchConfigError", "missing search block")

get_search_cfg(stage) == load_search_cfg(CONFIG_PATH, resolve_stage(stage))

\* the registry after _maybe_import_provider(backend): only the module
\* deep_research.providers.customsearch exists and exposes PROVIDER
maybe_import_provider(registry, backend) ==
    IF backend = "customsearch"
    THEN [registry EXCEPT ![backend] = "CustomSearchProvider"]
    ELSE registry

\* _get_provider: what it returns (or that it raises) and the registry and
\* provider cache it leaves
get_provider(search_cfg) ==
    LET backend == Lower(IF search_cfg.backend = None THEN "tavily"
                         ELSE search_cfg.backend)
        cache_key == << CONFIG_PATH, backend >>
    IN  IF cache_key \in DOMAIN PROVIDER_CACHE
        THEN [raises |-> FALSE, backend |-> backend,
              provider |-> PROVIDER_CACHE[cache_key],
              registry |-> PROVIDER_REGISTRY, cache |-> PROVIDER_CACHE]
        ELSE LET registry ==
                     IF PROVIDER_REGISTRY[backend] = None
                     THEN maybe_import_provider(PROVIDER_REGISTRY, backend)
                     ELSE PROVIDER_REGISTRY
             IN  IF registry[backend] = None
                 THEN [raises |-> TRUE, backend |-> backend, provider |-> None,
                       registry |-> registry, cache |-> PROVIDER_CACHE]
                 ELSE [raises |-> FALSE, backend |-> backend,
                       provider |-> registry[backend], registry |-> registry,
                       cache |-> (cache_key :> registry[backend]) @@ PROVIDER_CACHE]

\* the count of a key, 0 for a key not counted yet
CountOf(counts, key) == IF key \in DOMAIN counts THEN counts[key] ELSE 0

SeenOf(seen, key) == IF key \in DOMAIN seen THEN seen[key] ELSE {}

\* as client_cache_key, with the stage left out of the key
client_cache_key_no_stage(stage_name, backend) == << CONFIG_PATH, "", backend >>

\* the key of the client cache
client_cache_key(stage_name, backend) == << CONFIG_PATH, stage_name, backend >>

get_search_client ==
    /\ UNCHANGED << session_vars, session, evaluator_call, search_runtime >>
    /\ \E stage \in Stages :
        LET stage_name == resolve_stage(stage) IN
        IF get_search_cfg_raises(stage_name)
        THEN /\ last_call' = get_search_cfg_error("get_search_client", stage)
             /\ UNCHANGED << CONFIG_PATH, PROVIDER_REGISTRY, PROVIDER_CACHE,
                             SEARCH_CLIENT_CACHE, clients_built, build_count,
                             returned_clients >>
        ELSE
        LET search_cfg == get_search_cfg(stage_name)
            got == get_provider(search_cfg)
            backend == got.backend
            cache_key == client_cache_key(stage_name, backend)
            asked == << CONFIG_PATH, stage_name, backend >>
        IN  /\ PROVIDER_REGISTRY' = got.registry
            /\ PROVIDER_CACHE' = got.cache
            /\ UNCHANGED CONFIG_PATH
            /\ IF got.raises
               THEN /\ last_call' = Raised("get_search_client", "SearchConfigError",
                                           "unsupported backend")
                    /\ UNCHANGED << SEARCH_CLIENT_CACHE, clients_built, build_count,
                                    returned_clients >>
               ELSE IF cache_key \in DOMAIN SEARCH_CLIENT_CACHE
               THEN /\ last_call' =
                           Returned("get_search_client", backend,
                                    SEARCH_CLIENT_CACHE[cache_key])
                    /\ returned_clients' =
                           (asked :> (SeenOf(returned_clients, asked)
                                      \cup {SEARCH_CLIENT_CACHE[cache_key]}))
                           @@ returned_clients
                    /\ UNCHANGED << SEARCH_CLIENT_CACHE, clients_built, build_count >>
               ELSE IF ~search_cfg.mapping
               THEN /\ last_call' = Raised("get_search_client", "SearchConfigError",
                                           "not a mapping")
                    /\ UNCHANGED << SEARCH_CLIENT_CACHE, clients_built, build_count,
                                    returned_clients >>
               ELSE \E built \in BOOLEAN :
                    IF ~built
                    THEN \* provider.build_client raised: logged and re-raised
                         /\ last_call' = Raised("get_search_client", "Exception",
                                                "build_client raised")
                         /\ UNCHANGED << SEARCH_CLIENT_CACHE, clients_built,
                                         build_count, returned_clients >>
                    ELSE LET client == [provider |-> got.provider,
                                        id |-> clients_built + 1]
                         IN  /\ clients_built < MaxBuilds
                             /\ clients_built' = clients_built + 1
                             /\ SEARCH_CLIENT_CACHE' =
                                    (cache_key :> client) @@ SEARCH_CLIENT_CACHE
                             /\ build_count' =
                                    (asked :> (CountOf(build_count, asked) + 1))
                                    @@ build_count
                             /\ returned_clients' =
                                    (asked :> (SeenOf(returned_clients, asked)
                                               \cup {client}))
                                    @@ returned_clients
                             /\ last_call' =
                                    Returned("get_search_client", backend, client)

get_search_provider ==
    \E stage \in Stages :
        /\ UNCHANGED << session_vars, session, evaluator_call, search_runtime >>
        /\ UNCHANGED << CONFIG_PATH, SEARCH_CLIENT_CACHE, clients_built, build_count,
                        returned_clients >>
        /\ IF get_search_cfg_raises(stage)
           THEN /\ last_call' = get_search_cfg_error("get_search_provider", stage)
                /\ UNCHANGED << PROVIDER_REGISTRY, PROVIDER_CACHE >>
           ELSE LET got == get_provider(get_search_cfg(stage))
                IN  /\ PROVIDER_REGISTRY' = got.registry
                    /\ PROVIDER_CACHE' = got.cache
                    /\ last_call' =
                           IF got.raises
                           THEN Raised("get_search_provider", "SearchConfigError",
                                       "unsupported backend")
                           ELSE Returned("get_search_provider", got.backend,
                                         got.provider)

get_search_defaults ==
    \E stage \in Stages :
        /\ UNCHANGED << session_vars, session, evaluator_call, search_runtime >>
        /\ UNCHANGED << CONFIG_PATH, SEARCH_CLIENT_CACHE, clients_built, build_count,
                        returned_clients >>
        /\ IF get_search_cfg_raises(stage)
           THEN /\ last_call' = get_search_cfg_error("get_search_defaults", stage)
                /\ UNCHANGED << PROVIDER_REGISTRY, PROVIDER_CACHE >>
           ELSE LET search_cfg == get_search_cfg(stage)
                    got == get_provider(search_cfg)
                IN  /\ PROVIDER_REGISTRY' = got.registry
                    /\ PROVIDER_CACHE' = got.cache
                    /\ last_call' =
                           IF got.raises
                           THEN Raised("get_search_defaults", "SearchConfigError",
                                       "unsupported backend")
                           ELSE IF ~search_cfg.mapping
                           THEN Raised("get_search_defaults", "SearchConfigError",
                                       "not a mapping")
                           ELSE Returned("get_search_defaults", got.backend,
                                         [defaults_of |-> got.provider])

\* as WithoutBackend, keeping every entry
WithoutBackend_keep_all(cache, at, backend) == cache

\* the entries of a cache whose key does not name the backend at position at
WithoutBackend(cache, at, backend) ==
    [k \in { key \in DOMAIN cache : key[at] # backend } |-> cache[k]]

\* the provider names override_provider and register_provider are called with
ProviderNames == {"tavily", "CustomSearch"}

\* the providers external code injects
InjectedProviders == {"FakeProvider"}

override_provider ==
    \E name \in ProviderNames, provider \in InjectedProviders, clear \in BOOLEAN :
        LET normalized == Lower(name) IN
        /\ PROVIDER_REGISTRY' = [PROVIDER_REGISTRY EXCEPT ![normalized] = provider]
        /\ IF ~clear
           THEN UNCHANGED << PROVIDER_CACHE, SEARCH_CLIENT_CACHE >>
           ELSE /\ PROVIDER_CACHE' = WithoutBackend(PROVIDER_CACHE, 2, normalized)
                /\ SEARCH_CLIENT_CACHE' =
                       WithoutBackend(SEARCH_CLIENT_CACHE, 3, normalized)
        /\ build_count' =
               IF clear THEN WithoutBackend(build_count, 3, normalized)
               ELSE build_count
        /\ returned_clients' =
               IF clear THEN WithoutBackend(returned_clients, 3, normalized)
               ELSE returned_clients
        /\ last_call' =
               [fn |-> "override_provider", outcome |-> "returned",
                backend |-> normalized, provider |-> provider, cleared |-> clear,
                dropped_providers |->
                    Cardinality({ k \in DOMAIN PROVIDER_CACHE :
                                     k[2] = normalized /\ clear }),
                dropped_clients |->
                    Cardinality({ k \in DOMAIN SEARCH_CLIENT_CACHE :
                                     k[3] = normalized /\ clear })]
        /\ UNCHANGED << CONFIG_PATH, clients_built >>
        /\ UNCHANGED << session_vars, session, evaluator_call, search_runtime >>

register_provider ==
    \E name \in ProviderNames, provider \in InjectedProviders :
        /\ PROVIDER_REGISTRY' = [PROVIDER_REGISTRY EXCEPT ![Lower(name)] = provider]
        /\ last_call' = [fn |-> "register_provider", outcome |-> "returned",
                         backend |-> Lower(name), provider |-> provider]
        /\ UNCHANGED << CONFIG_PATH, PROVIDER_CACHE, SEARCH_CLIENT_CACHE,
                        clients_built, build_count, returned_clients >>
        /\ UNCHANGED << session_vars, session, evaluator_call, search_runtime >>

clear_cache ==
    /\ SEARCH_CLIENT_CACHE' = EmptyCache
    /\ PROVIDER_CACHE' = EmptyCache
    /\ build_count' = EmptyCache
    /\ returned_clients' = EmptyCache
    /\ last_call' = [fn |-> "clear_cache", outcome |-> "returned"]
    /\ UNCHANGED << CONFIG_PATH, PROVIDER_REGISTRY, clients_built >>
    /\ UNCHANGED << session_vars, session, evaluator_call, search_runtime >>

\* the process (a test, a launcher) points CONFIG_PATH at another file
setenv_CONFIG_PATH ==
    \E path \in ConfigPaths :
        /\ path # CONFIG_PATH
        /\ CONFIG_PATH' = path
        /\ last_call' = [fn |-> "setenv", outcome |-> "returned"]
        /\ UNCHANGED << PROVIDER_REGISTRY, PROVIDER_CACHE, SEARCH_CLIENT_CACHE,
                        clients_built, build_count, returned_clients >>
        /\ UNCHANGED << session_vars, session, evaluator_call, search_runtime >>

FactoryInit ==
    /\ SessionIdle
    /\ EvaluatorIdle
    /\ FactoryLoaded

FactoryNext ==
    \/ get_search_client
    \/ get_search_provider
    \/ get_search_defaults
    \/ override_provider
    \/ register_provider
    \/ clear_cache
    \/ setenv_CONFIG_PATH

FactorySpec == FactoryInit /\ [][FactoryNext]_vars

(***************************************************************************)
(* deep_research.utils: the search runtime.  The module globals            *)
(* search_provider, search_client and search_defaults start as None;       *)
(* _ensure_search_runtime fills the ones that are still None, in this      *)
(* order, from search_factory, for the default stage.  An exception of one *)
(* resolution leaves the later globals as they were and is re-raised.      *)
(***************************************************************************)
\* the runtime _ensure_search_runtime leaves, the search_factory state its
\* calls leave, and the exception it re-raises ("none": it returns);
\* built: provider.build_client returns a client; backend: the backend the
\* default stage is configured with
ensure_search_runtime(built) ==
    LET stage_name == resolve_stage(None)
        configured == IF get_search_cfg_raises(None) THEN None
                      ELSE get_provider(get_search_cfg(None)).backend
        unchanged == [error |-> "none", backend |-> configured,
                      provider |-> search_provider, client |-> search_client,
                      defaults |-> search_defaults,
                      registry |-> PROVIDER_REGISTRY, pcache |-> PROVIDER_CACHE,
                      ccache |-> SEARCH_CLIENT_CACHE, new_client |-> FALSE,
                      client_returned |-> FALSE]
    IN  IF /\ search_provider # None
           /\ search_client # NoClient
           /\ search_defaults # NoDefaults
        THEN unchanged
        ELSE IF get_search_cfg_raises(None)
        THEN [unchanged EXCEPT
                  !.error = get_search_cfg_error("get_search_provider", None).outcome]
        ELSE
        LET search_cfg == get_search_cfg(None)
            got == get_provider(search_cfg)
            cache_key == client_cache_key(stage_name, got.backend)
            hit == cache_key \in DOMAIN SEARCH_CLIENT_CACHE
            client_needed == search_client = NoClient
            client_error ==
                IF ~client_needed \/ hit THEN "none"
                ELSE IF ~search_cfg.mapping THEN "SearchConfigError"
                ELSE IF ~built THEN "Exception"
                ELSE "none"
            client ==
                IF ~client_needed THEN search_client
                ELSE IF hit THEN SEARCH_CLIENT_CACHE[cache_key]
                ELSE IF client_error # "none" THEN NoClient
                ELSE [provider |-> got.provider, id |-> clients_built + 1]
            defaults_needed == client_error = "none" /\ search_defaults = NoDefaults
            defaults_error ==
                IF defaults_needed /\ ~search_cfg.mapping
                THEN "SearchConfigError" ELSE "none"
        IN  IF got.raises
            THEN [unchanged EXCEPT !.error = "SearchConfigError",
                                   !.backend = got.backend,
                                   !.registry = got.registry]
            ELSE [error |-> IF client_error # "none" THEN client_error
                            ELSE defaults_error,
                  backend |-> got.backend,
                  provider |-> IF search_provider = None THEN got.provider
                               ELSE search_provider,
                  client |-> client,
                  defaults |-> IF defaults_needed /\ defaults_error = "none"
                               THEN [defaults_of |-> got.provider]
                               ELSE search_defaults,
                  registry |-> got.registry,
                  pcache |-> got.cache,
                  ccache |-> IF client_needed /\ ~hit /\ client_error = "none"
                             THEN (cache_key :> client) @@ SEARCH_CLIENT_CACHE
                             ELSE SEARCH_CLIENT_CACHE,
                  new_client |-> client_needed /\ ~hit /\ client_error = "none",
                  client_returned |-> client_needed /\ client_error = "none"]

\* tavily_search_multiple(queries) without client, provider or defaults
\* argument: the runtime is resolved, then every query is searched through
\* the runtime's client (or through the provider, for a client without a
\* search method); answered: no search call raised
tavily_search_multiple ==
    \E built \in BOOLEAN, answered \in BOOLEAN :
        LET runtime == ensure_search_runtime(built)
            asked == << CONFIG_PATH, resolve_stage(None), runtime.backend >>
        IN  /\ runtime.new_client => clients_built < MaxBuilds
            /\ search_provider' = runtime.provider
            /\ search_client' = runtime.client
            /\ search_defaults' = runtime.defaults
            /\ PROVIDER_REGISTRY' = runtime.registry
            /\ PROVIDER_CACHE' = runtime.pcache
            /\ SEARCH_CLIENT_CACHE' = runtime.ccache
            /\ clients_built' = IF runtime.new_client THEN clients_built + 1
                                ELSE clients_built
            /\ build_count' =
                   IF runtime.new_client
                   THEN (asked :> (CountOf(build_count, asked) + 1)) @@ build_count
                   ELSE build_count
            /\ returned_clients' =
                   IF runtime.client_returned
                   THEN (asked :> (SeenOf(returned_clients, asked)
                                   \cup {runtime.client})) @@ returned_clients
                   ELSE returned_clients
            /\ last_call' =
                   [fn |-> "tavily_search_multiple",
                    outcome |-> IF runtime.error # "none" THEN runtime.error
                                ELSE IF answered THEN "returned"
                                ELSE "search raised",
                    backend |-> runtime.backend,
                    provider |-> runtime.provider,
                    client |-> runtime.client,
                    defaults |-> runtime.defaults,
                    after |-> Overridden]
            /\ UNCHANGED CONFIG_PATH
            /\ UNCHANGED << session_vars, session, evaluator_call >>

SearchNext ==
    \/ tavily_search_multiple
    \/ override_provider
    \/ register_provider
    \/ clear_cache
    \/ setenv_CONFIG_PATH

SearchSpec == FactoryInit /\ [][SearchNext]_vars

(***************************************************************************)
(* llm_factory: the timeout of a chat model.  A configuration value is     *)
(* Num(n), PyNone (the key is there and holds null) or NoKey (the key is   *)
(* not in the mapping).  The stage configuration is modelled as loaded:    *)
(* one role, "writer", and the cognition block of its backend.             *)
(***************************************************************************)
PyNone == NullScore
NoKey == MissingScore

\* cfg.get(key)
dict_get(cfg, key) == IF cfg[key] = NoKey THEN PyNone ELSE cfg[key]

\* as cfg_timeout, with "if cfg.get(key):" for "if cfg.get(key) is not None:"
cfg_timeout_truthy(cfg) ==
    IF dict_get(cfg, "timeout") \notin {PyNone, Num(0)}
    THEN dict_get(cfg, "timeout")
    ELSE IF dict_get(cfg, "request_timeout") \notin {PyNone, Num(0)}
    THEN dict_get(cfg, "request_timeout")
    ELSE IF dict_get(cfg, "timeout_seconds") \notin {PyNone, Num(0)}
    THEN dict_get(cfg, "timeout_seconds")
    ELSE PyNone

\* the inner loop of _resolve_timeout_seconds over one mapping: the first of
\* timeout, request_timeout, timeout_seconds that is not None
cfg_timeout(cfg) ==
    IF dict_get(cfg, "timeout") # PyNone THEN dict_get(cfg, "timeout")
    ELSE IF dict_get(cfg, "request_timeout") # PyNone
    THEN dict_get(cfg, "request_timeout")
    ELSE IF dict_get(cfg, "timeout_seconds") # PyNone
    THEN dict_get(cfg, "timeout_seconds")
    ELSE PyNone

\* the outer loop: the role mapping first, then the provider mapping
resolve_timeout_seconds(api_cfg, role_cfg) ==
    IF cfg_timeout(role_cfg) # PyNone THEN cfg_timeout(role_cfg)
    ELSE cfg_timeout(api_cfg)

\* what a call of get_chat_model ends with
ConfigError(reason) == [outcome |-> "LLMConfigError", reason |-> reason]

\* _build_openai_kwargs / _build_azure_kwargs: the keyword arguments that
\* depend on the timeout and on the backend
build_kwargs(backend, api_cfg, role_cfg) ==
    LET timeout_seconds == resolve_timeout_seconds(api_cfg, role_cfg)
        timeouts == IF timeout_seconds # PyNone
                    THEN [timeout |-> timeout_seconds,
                          request_timeout |-> timeout_seconds]
                    ELSE [timeout |-> NoKey, request_timeout |-> NoKey]
    IN  IF backend = "openai"
        THEN [outcome |-> "init_chat_model",
              kwargs |-> [model_provider |-> NoKey] @@ timeouts]
        ELSE IF backend = "azure"
        THEN IF ~api_cfg.azure_endpoint
             THEN ConfigError("Azure config requires 'azure_endpoint'")
             ELSE [outcome |-> "init_chat_model",
                   kwargs |-> [model_provider |-> "azure_openai"] @@ timeouts]
        ELSE ConfigError("Unsupported backend")

\* get_chat_model(role) under a stage whose roles block holds role_cfg for
\* "writer" and whose cognition block holds api_cfg for the backends of
\* Cognition
Cognition == {"openai", "azure", "anthropic"}

get_chat_model(role, role_cfg, api_cfg) ==
    IF role # "writer" THEN ConfigError("Role not found")
    ELSE IF role_cfg.backend = None \/ ~role_cfg.handle
    THEN ConfigError("Role is missing backend or handle")
    ELSE IF role_cfg.backend \notin Cognition
    THEN ConfigError("No cognition config for backend")
    ELSE build_kwargs(role_cfg.backend, api_cfg, role_cfg)

\* the role mappings and the provider mappings of the model: every alias
\* holds a value of its own, so that the alias a result came from shows
RoleTimeouts ==
    [timeout : {NoKey, PyNone, Num(0), Num(5)},
     request_timeout : {NoKey, PyNone, Num(6)},
     timeout_seconds : {NoKey, PyNone, Num(7)}]

ApiCfgs ==
    [timeout : {NoKey, PyNone, Num(10)},
     request_timeout : {NoKey, Num(20)},
     timeout_seconds : {NoKey, PyNone, Num(30)},
     azure_endpoint : BOOLEAN]

RoleCfgs ==
    { t @@ [backend |-> b, handle |-> h] :
          t \in RoleTimeouts,
          b \in {"openai", "azure", "anthropic", "ollama", None},
          h \in BOOLEAN }

ResolveCalls ==
    { [fn |-> "_resolve_timeout_seconds", api_cfg |-> a, role_cfg |-> r] :
          a \in { c \in ApiCfgs : c.azure_endpoint }, r \in RoleTimeouts }

ChatModelCalls ==
    { [fn |-> "get_chat_model", role |-> role, role_cfg |-> r, api_cfg |-> a] :
          role \in {"writer", "summarizer"},
          r \in { c \in RoleCfgs : c.request_timeout # PyNone },
          a \in { c \in ApiCfgs : c.timeout_seconds # PyNone } }

LLMInit ==
    /\ SessionIdle
    /\ FactoryLoaded
    /\ args \in ResolveCalls \cup ChatModelCalls
    /\ result = NotCalled

call_resolve_timeout_seconds ==
    /\ args.fn = "_resolve_timeout_seconds"
    /\ result = NotCalled
    /\ result' = [value |-> resolve_timeout_seconds(args.api_cfg, args.role_cfg)]
    /\ UNCHANGED << session_vars, session, args, search_factory >>

call_get_chat_model ==
    /\ args.fn = "get_chat_model"
    /\ result = NotCalled
    /\ result' = get_chat_model(args.role, args.role_cfg, args.api_cfg)
    /\ UNCHANGED << session_vars, session, args, search_factory >>

LLMNext ==
    \/ call_resolve_timeout_seconds
    \/ call_get_chat_model

LLMSpec == LLMInit /\ [][LLMNext]_vars

(***************************************************************************)
(* Properties.                                                             *)
(***************************************************************************)
Decided == pc \in {"END", "refine_report"}

GenerationFailed(c) ==
    \/ c.bias_response.kind = "fail"
    \/ c.source_response.kind = "fail"
    \/ c.claim_response.kind = "fail"

\* C1: every session that entered the loop ends FINALIZED (never by an
\* exception), with at most MAX_REFINEMENT_ITERATIONS refinement runs and at
\* most MAX_REFINEMENT_ITERATIONS + 1 evaluation runs.
C1_SessionFinalizesWithinCaps ==
    /\ refinement_runs <= env.MAX_REFINEMENT_ITERATIONS
    /\ evaluation_runs <= env.MAX_REFINEMENT_ITERATIONS + 1
    /\ (evaluation_runs > 0 => pc # "raised")

\* C2: whenever should_refine_report is about to be called,
\* refinement_iterations <= max_refinement_iterations.
C2_IterationsWithinCapAtDecision ==
    pc = "should_refine_report" =>
        refinement_iterations <= env.MAX_REFINEMENT_ITERATIONS

\* the decision is taken with the counter exactly at a positive cap
C2_Witness ==
    /\ pc = "should_refine_report"
    /\ env.MAX_REFINEMENT_ITERATIONS > 0
    /\ refinement_iterations = env.MAX_REFINEMENT_ITERATIONS

\* C3: in every reachable state len(red_team_feedback_history) equals
\* red_team_iteration_count.
C3_HistoryLengthIsIterationCount ==
    Len(red_team_feedback_history) = red_team_iteration_count

\* two scored evaluations, then an evaluation aborted by a failure
C3_Witness ==
    /\ red_team_iteration_count >= 2
    /\ cycle.outcome = "failed"
    /\ pc = "should_refine_report"

\* C4: the verdict is REFINE exactly when the red team and the feedback loop
\* are enabled, a score is present, it is below the minimum and the refinement
\* counter is below the cap; every other combination gives FINALIZE.
C4_VerdictIsSixRules ==
    Decided =>
        /\ decision \in {"refine_report", "finalize_report"}
        /\ decision = "refine_report" <=>
               /\ env.ENABLE_RED_TEAM_EVAL
               /\ env.RED_TEAM_FEEDBACK_LOOP
               /\ red_team_evaluation # Absent
               /\ red_team_evaluation.overall_score < env.MIN_OBJECTIVITY_SCORE
               /\ refinement_iterations < env.MAX_REFINEMENT_ITERATIONS

\* a score exactly on the minimum, iterations left: the verdict is FINALIZE
C4_Witness ==
    /\ pc = "END"
    /\ decision = "finalize_report"
    /\ env.ENABLE_RED_TEAM_EVAL
    /\ env.RED_TEAM_FEEDBACK_LOOP
    /\ red_team_evaluation # Absent
    /\ red_team_evaluation.overall_score = env.MIN_OBJECTIVITY_SCORE
    /\ refinement_iterations < env.MAX_REFINEMENT_ITERATIONS

\* C5: when the evaluation of a cycle failed and produced no score, the
\* decision that follows is FINALIZE: no refinement is run on the report that
\* was current when the evaluation failed.
C5_FailedCycleFinalizes ==
    Decided /\ cycle.outcome = "failed" => decision = "finalize_report"

\* C6: an evaluation cycle in which a generation call failed changes none of
\* red_team_evaluation, red_team_report, red_team_feedback,
\* red_team_iteration_count, red_team_feedback_history and final_report.
C6_FailedGenerationEmptyUpdate ==
    [][pc = "red_team_evaluation" /\ GenerationFailed(cycle') =>
           /\ red_team_evaluation' = red_team_evaluation
           /\ red_team_report' = red_team_report
           /\ red_team_feedback' = red_team_feedback
           /\ red_team_iteration_count' = red_team_iteration_count
           /\ red_team_feedback_history' = red_team_feedback_history
           /\ final_report' = final_report]_vars

\* the claim-verification call failed after the bias and source calls had
\* returned, in a session that already holds a scored evaluation
C6_Witness ==
    /\ pc = "should_refine_report"
    /\ cycle.claim_response.kind = "fail"
    /\ cycle.bias_response.kind = "json"
    /\ cycle.source_response.kind = "json"
    /\ red_team_iteration_count >= 1

\* C7: after a failure inside the evaluation step the session is not ended by
\* an exception, and when it is FINALIZED its final_report is not empty.
C7_EvaluationFailureNotFatal ==
    cycle.outcome = "failed" =>
        /\ pc # "raised"
        /\ (pc = "END" => final_report # 0)

\* C8: a session FINALIZED after its last evaluation was skipped because of a
\* generation failure delivers no objectivity score (the score it would carry
\* was computed from an earlier report, not from the one delivered).
C8_SkippedEvaluationLeavesNoScore ==
    pc = "END" /\ cycle.outcome = "failed" /\ GenerationFailed(cycle)
    => red_team_evaluation = Absent

\* C9: a response without parsable JSON makes the bias analysis return all
\* scores 0.5 and empty lists, and the source analysis a credibility of 0.5
\* and an empty list.
C9_NoJsonGivesNeutralMetrics ==
    /\ cycle.bias_response.kind \in {"nojson", "badjson"} =>
           LET bias == analyze_bias(cycle.bias_response)
           IN  /\ bias.one_sided_score = Num(5)
               /\ bias.source_diversity_score = Num(5)
               /\ bias.quantitative_ratio = Num(5)
               /\ bias.missing_counter_evidence = JList(<< >>)
               /\ bias.confirmation_bias_indicators = JList(<< >>)
    /\ cycle.source_response.kind \in {"nojson", "badjson"} =>
           LET sources == analyze_sources(cycle.source_response, 0)
           IN  /\ sources.source_credibility_score = 5
               /\ sources.missing_citations = JList(<< >>)

\* a response is malformed: no JSON, unparsable JSON, a missing field or a
\* field of the wrong type
MalformedScore(x) == x.t # "num"
MalformedList(x) == x.t # "list"

MalformedBias(r) ==
    \/ r.kind \in {"nojson", "badjson"}
    \/ /\ r.kind = "json"
       /\ \/ MalformedScore(r.one_sided_score)
          \/ MalformedScore(r.source_diversity_score)
          \/ MalformedScore(r.quantitative_ratio)
          \/ MalformedList(r.missing_counter_evidence)
          \/ MalformedList(r.confirmation_bias_indicators)

MalformedSource(r) ==
    \/ r.kind \in {"nojson", "badjson"}
    \/ /\ r.kind = "json"
       /\ \/ MalformedScore(r.total_sources)
          \/ MalformedScore(r.primary_sources)
          \/ MalformedScore(r.secondary_sources)
          \/ MalformedScore(r.academic_sources)
          \/ MalformedScore(r.source_credibility_score)
          \/ MalformedList(r.missing_citations)

MalformedClaim(r) ==
    \/ r.kind \in {"nojson", "badjson"}
    \/ /\ r.kind = "json"
       /\ \/ MalformedList(r.unsupported)
          \/ MalformedList(r.missing_counter_evidence)

\* C10: a cycle whose generation calls all returned, one of them with a
\* malformed response, still produces an ObjectivityScore: the cycle is not
\* skipped.
C10_MalformedResponseAbsorbed ==
    /\ cycle.outcome \in {"failed", "scored"}
    /\ ~cycle.construction_failed
    /\ ~GenerationFailed(cycle)
    /\ \/ MalformedBias(cycle.bias_response)
       \/ MalformedSource(cycle.source_response)
       \/ MalformedClaim(cycle.claim_response)
    => cycle.outcome = "scored"

\* what the claim-verification analysis is to make of one list element
CoercedAsDescribed(item) ==
    IF item.t = "str" THEN item
    ELSE IF item.t = "dict" /\ item.k \in {"claim", "gap", "text"} THEN StrItem(item.v)
    ELSE StrItem(PyStr(item))

ListCoercedAsDescribed(field, returned) ==
    /\ Len(returned) = Len(field.v)
    /\ \A i \in 1..Len(returned) : returned[i] = CoercedAsDescribed(field.v[i])

\* C11: for a parsed claim-verification response each returned list has the
\* length and order of the input list and holds only strings: a string is
\* kept, a structured element gives the value of its claim, gap or text key
\* (in either list), any other element is stringified.
C11_CoercionPrefersClaimGapText ==
    /\ args.fn = "_verify_claims"
    /\ result # NotCalled
    /\ args.response.unsupported.t = "list"
    /\ args.response.missing_counter_evidence.t = "list"
    => /\ ListCoercedAsDescribed(args.response.unsupported, result.unsupported)
       /\ ListCoercedAsDescribed(args.response.missing_counter_evidence,
                                 result.missing_counter_evidence)

ScoreReturned ==
    /\ args.fn = "_calculate_objectivity_score"
    /\ result # NotCalled

\* 1 - min(0.05 * n, 0.2), in hundredths
PenaltyMultiplier(n) ==
    CASE n = 0 -> 100
      [] n = 1 -> 95
      [] n = 2 -> 90
      [] n = 3 -> 85
      [] OTHER -> 80

Clamp01(x) == IF x < 0 THEN 0 ELSE IF x > 10000 THEN 10000 ELSE x

\* C12: the objectivity score equals
\* clamp01((0.4*(1 - one_sided) + 0.3*credibility + 0.2*diversity
\* + 0.1*quantitative) * (1 - min(0.05*n, 0.2))) for n unsupported claims, the
\* multiplier being 1.0, 0.95, 0.8, 0.8 for n = 0, 1, 4, 10, and lies in
\* [0, 1] for any numeric sub-scores, also those outside [0, 1].
C12_ScoreIsClampedWeightedSum ==
    ScoreReturned =>
        LET o == args.bias.one_sided_score.v
            d == args.bias.source_diversity_score.v
            q == args.bias.quantitative_ratio.v
            c == args.sources.source_credibility_score
            n == Len(args.claims.unsupported)
        IN  /\ result.overall_score =
                   Clamp01((4 * (10 - o) + 3 * c + 2 * d + q) * PenaltyMultiplier(n))
            /\ result.overall_score \in 0..10000
            /\ (n = 0 => 100 - unsupported_penalty(args.claims) = 100)
            /\ (n = 1 => 100 - unsupported_penalty(args.claims) = 95)
            /\ (n = 4 => 100 - unsupported_penalty(args.claims) = 80)
            /\ (n = 10 => 100 - unsupported_penalty(args.claims) = 80)

\* ten unsupported claims and sub-scores outside [0, 1]: the weighted sum
\* exceeds 1 even after the capped penalty and is clamped to 1
C12_Witness ==
    /\ ScoreReturned
    /\ Len(args.claims.unsupported) = 10
    /\ args.bias.one_sided_score.v < 0
    /\ args.sources.source_credibility_score > 10
    /\ result.overall_score = 10000

\* C13: with the other inputs fixed, a larger source_diversity_score or
\* source_credibility_score never gives a smaller overall score and a larger
\* one_sided_score never gives a larger one, for every number of unsupported
\* claims and where the clamp is active.
C13_ScoreMonotone ==
    ScoreReturned =>
        \A x \in SubScores :
            /\ x >= args.bias.source_diversity_score.v =>
                   calculate_objectivity_score(
                       [args.bias EXCEPT !.source_diversity_score = Num(x)],
                       args.sources, args.claims) >= result.overall_score
            /\ x >= args.sources.source_credibility_score =>
                   calculate_objectivity_score(
                       args.bias,
                       [args.sources EXCEPT !.source_credibility_score = x],
                       args.claims) >= result.overall_score
            /\ x >= args.bias.one_sided_score.v =>
                   calculate_objectivity_score(
                       [args.bias EXCEPT !.one_sided_score = Num(x)],
                       args.sources, args.claims) <= result.overall_score

\* a score strictly between the clamps, with a penalty, that a larger
\* one_sided_score drives to the lower clamp
C13_Witness ==
    /\ ScoreReturned
    /\ Len(args.claims.unsupported) = 2
    /\ result.overall_score > 0
    /\ result.overall_score < 10000
    /\ calculate_objectivity_score([args.bias EXCEPT !.one_sided_score = Num(20)],
                                   args.sources, args.claims) = 0

FeedbackReturned ==
    /\ args.fn = "generate_refinement_feedback"
    /\ result # NotCalled

\* the first min(k, n) elements of a list of n elements
FirstUpTo(l, k) == [i \in 1..(IF Len(l) < k THEN Len(l) ELSE k) |-> l[i]]

\* the priority issues of one severity and text
IssuesOf(issues, severity, text) ==
    SelectSeq(issues, LAMBDA i : i.severity = severity /\ i.issue = text)

\* C14: the priority issues are those of the rule table, in table order and
\* nothing else: one score issue when overall < 0.75 (critical below 0.60,
\* high from 0.60), none from 0.75; a high issue iff a claim is unsupported,
\* with the first min(5, n) claims; a medium issue iff there is a
\* counter-evidence gap, with the first min(3, n) gaps; a medium issue iff a
\* citation is missing, with the first min(5, n) citations.
C14_PriorityIssuesAreRuleTable ==
    FeedbackReturned =>
        LET sc == args.score
            issues == result.priority_issues
            critical == IssuesOf(issues, "critical",
                            "Overall objectivity score is below acceptable threshold")
            high == IssuesOf(issues, "high",
                             "Overall objectivity score needs improvement")
            unsupported == IssuesOf(issues, "high", "unsupported claims found")
            gaps == IssuesOf(issues, "medium",
                             "Missing counter-evidence or alternative perspectives")
            citations == IssuesOf(issues, "medium", "claims missing citations")
        IN  /\ issues = critical \o high \o unsupported \o gaps \o citations
            /\ Len(critical) = IF sc.overall_score < 6000 THEN 1 ELSE 0
            /\ Len(high) = IF sc.overall_score >= 6000 /\ sc.overall_score < 7500
                            THEN 1 ELSE 0
            /\ Len(unsupported) = IF Len(sc.unsupported_claims) >= 1 THEN 1 ELSE 0
            /\ \A i \in 1..Len(unsupported) :
                   /\ unsupported[i].n = Len(sc.unsupported_claims)
                   /\ unsupported[i].evidence = FirstUpTo(sc.unsupported_claims, 5)
            /\ Len(gaps) = IF Len(sc.counter_evidence_gaps) >= 1 THEN 1 ELSE 0
            /\ \A i \in 1..Len(gaps) :
                   gaps[i].evidence = FirstUpTo(sc.counter_evidence_gaps, 3)
            /\ Len(citations) =
                   IF Len(sc.source_quality.missing_citations.v) >= 1 THEN 1 ELSE 0
            /\ \A i \in 1..Len(citations) :
                   /\ citations[i].n = Len(sc.source_quality.missing_citations.v)
                   /\ citations[i].evidence =
                          FirstUpTo(sc.source_quality.missing_citations.v, 5)

\* a score below 0.60 with six unsupported claims, four gaps and six missing
\* citations: four issues, the lists cut to five, three and five
C14_Witness ==
    /\ FeedbackReturned
    /\ args.score.overall_score < 6000
    /\ Len(args.score.unsupported_claims) > 5
    /\ Len(args.score.counter_evidence_gaps) > 3
    /\ Len(args.score.source_quality.missing_citations.v) > 5
    /\ Len(result.priority_issues) = 4
    /\ Len(result.priority_issues[2].evidence) = 5
    /\ Len(result.priority_issues[3].evidence) = 3

Contains(l, x) == \E i \in 1..Len(l) : l[i] = x

\* C15: one suggestion per satisfied condition, thresholds strict
\* (one_sided > 0.6, quantitative_ratio < 0.3, source_credibility < 0.6,
\* source_diversity < 0.5), whatever the priority issues are; the
\* one-sidedness rule adds at most the first 3 counter-evidence items to the
\* missing elements, each other rule its one fixed string.
C15_SuggestionsFollowStrictThresholds ==
    FeedbackReturned =>
        LET b == args.score.bias_metrics
            one_sided == b.one_sided_score.v > 6
            quantitative == b.quantitative_ratio.v < 3
            credibility == args.score.source_quality.source_credibility_score < 6
            diversity == b.source_diversity_score.v < 5
            Count(c) == IF c THEN 1 ELSE 0
            contributed == IF one_sided THEN FirstUpTo(b.missing_counter_evidence.v, 3)
                           ELSE << >>
            fixed == SubSeq(result.missing_elements, Len(contributed) + 1,
                            Len(result.missing_elements))
        IN  /\ Len(result.specific_suggestions) =
                   Count(one_sided) + Count(quantitative) + Count(credibility)
                   + Count(diversity)
            /\ one_sided <=>
                   Contains(result.specific_suggestions,
                       "Add alternative viewpoints and counter-arguments to balance the report")
            /\ quantitative <=>
                   Contains(result.specific_suggestions,
                       "Include more quantitative data: specific numbers, statistics, dates, and metrics")
            /\ credibility <=>
                   Contains(result.specific_suggestions,
                       "Prioritize primary sources and authoritative publications over secondary sources")
            /\ diversity <=>
                   Contains(result.specific_suggestions,
                       "Include sources from diverse perspectives and viewpoints")
            /\ Len(result.missing_elements) =
                   Len(contributed) + Count(quantitative) + Count(credibility)
                   + Count(diversity)
            /\ SubSeq(result.missing_elements, 1, Len(contributed)) = contributed
            /\ quantitative <=>
                   Contains(fixed, StrItem("Quantitative metrics and statistics"))
            /\ credibility <=>
                   Contains(fixed, StrItem("High-credibility primary sources"))
            /\ diversity <=> Contains(fixed, StrItem("Diverse source perspectives"))

\* every sub-score exactly on its threshold: no suggestion and no missing
\* element, although priority issues were raised
C15_Witness ==
    /\ FeedbackReturned
    /\ args.score.bias_metrics.one_sided_score.v = 6
    /\ args.score.bias_metrics.quantitative_ratio.v = 3
    /\ args.score.source_quality.source_credibility_score = 6
    /\ args.score.bias_metrics.source_diversity_score.v = 5
    /\ args.score.bias_metrics.missing_counter_evidence.v # << >>
    /\ result.specific_suggestions = << >>
    /\ result.missing_elements = << >>
    /\ result.priority_issues # << >>

\* C16: the missing-elements list of the feedback holds no string twice.
C16_MissingElementsDeduplicated ==
    FeedbackReturned =>
        \A i, j \in 1..Len(result.missing_elements) :
            result.missing_elements[i] = result.missing_elements[j] => i = j

\* C17: every session starts with its own loop state: both iteration
\* counters 0, an empty history, no evaluation and no feedback, whatever an
\* earlier session of the batch did.
C17_SessionStartsWithOwnLoopState ==
    pc = "final_report_generation" =>
        /\ red_team_iteration_count = 0
        /\ refinement_iterations = 0
        /\ red_team_feedback_history = << >>
        /\ red_team_evaluation = Absent
        /\ red_team_feedback = Absent

\* C18: a threshold variable that cannot be parsed is reported at loop setup:
\* no report is generated and no evaluation is run under such a
\* configuration, and the error never surfaces in the decision step.
C18_InvalidConfigFailsFast ==
    /\ unparsable # {} => reports_generated = 0 /\ evaluation_runs = 0
    /\ decision # "ValueError"

Resolvers == {"get_search_client", "get_search_provider", "get_search_defaults"}

\* the provider a returned resolver call shows: the provider itself, the
\* provider that built the client, the provider whose defaults were merged
ProviderShown ==
    CASE last_call.fn = "get_search_provider" -> last_call.value
      [] last_call.fn = "get_search_client" -> last_call.value.provider
      [] last_call.fn = "get_search_defaults" -> last_call.value.defaults_of

\* C20: override_provider(name, P) with clear_cache left at its default
\* leaves no cached provider and no cached client of backend name and leaves
\* the entries of every other backend as they were; the calls that follow it
\* for a stage configured with that backend show P: get_search_provider
\* returns P, get_search_client returns a client built by P, and
\* get_search_defaults returns P's defaults.
C20_OverrideReplacesCachedProvider ==
    /\ [][(last_call'.fn = "override_provider" /\ last_call'.cleared) =>
            LET backend == last_call'.backend IN
            /\ \A k \in DOMAIN PROVIDER_CACHE' : k[2] # backend
            /\ \A k \in DOMAIN SEARCH_CLIENT_CACHE' : k[3] # backend
            /\ \A k \in DOMAIN PROVIDER_CACHE :
                  k[2] # backend =>
                      /\ k \in DOMAIN PROVIDER_CACHE'
                      /\ PROVIDER_CACHE'[k] = PROVIDER_CACHE[k]
            /\ \A k \in DOMAIN SEARCH_CLIENT_CACHE :
                  k[3] # backend =>
                      /\ k \in DOMAIN SEARCH_CLIENT_CACHE'
                      /\ SEARCH_CLIENT_CACHE'[k] = SEARCH_CLIENT_CACHE[k]]_vars
    /\ []((/\ last_call.fn \in Resolvers
           /\ last_call.outcome = "returned"
           /\ last_call.after.backend = last_call.backend)
          => ProviderShown = last_call.after.provider)

\* the previous provider and its client were cached when override_provider
\* dropped them, a client of another backend stayed cached, and
\* get_search_client then returned a client built by the injected provider
C20_Witness ==
    /\ last_call.fn = "get_search_client"
    /\ last_call.outcome = "returned"
    /\ last_call.after.backend = last_call.backend
    /\ last_call.after.dropped_providers >= 1
    /\ last_call.after.dropped_clients >= 1
    /\ last_call.value.provider = last_call.after.provider
    /\ \E k \in DOMAIN SEARCH_CLIENT_CACHE :
          /\ k[3] # last_call.backend
          /\ SEARCH_CLIENT_CACHE[k].id < last_call.value.id

\* the first of a mapping's three aliases that holds a value, in the order
\* timeout, request_timeout, timeout_seconds; PyNone when none does
FirstAlias(cfg) ==
    LET set == { i \in 1..3 :
                   cfg[<< "timeout", "request_timeout", "timeout_seconds" >>[i]]
                       \notin {NoKey, PyNone} }
    IN  IF set = {} THEN PyNone
        ELSE cfg[<< "timeout", "request_timeout", "timeout_seconds" >>
                     [CHOOSE i \in set : \A j \in set : i <= j]]

\* C21: _resolve_timeout_seconds returns the role-level timeout whenever the
\* role mapping gives a value to timeout, request_timeout or timeout_seconds,
\* otherwise the provider-level one, otherwise None, with the alias priority
\* timeout, request_timeout, timeout_seconds inside one mapping; a chat
\* model of the openai or the azure backend is built with that value as
\* timeout and as request_timeout.
C21_TimeoutResolvedRoleFirst ==
    /\ (args.fn = "_resolve_timeout_seconds" /\ result # NotCalled) =>
          result.value = IF FirstAlias(args.role_cfg) # PyNone
                         THEN FirstAlias(args.role_cfg)
                         ELSE FirstAlias(args.api_cfg)
    /\ (/\ args.fn = "get_chat_model"
        /\ result # NotCalled
        /\ result.outcome = "init_chat_model") =>
          LET resolved == IF FirstAlias(args.role_cfg) # PyNone
                          THEN FirstAlias(args.role_cfg)
                          ELSE FirstAlias(args.api_cfg)
          IN  /\ args.role_cfg.backend \in {"openai", "azure"}
              /\ resolved # PyNone =>
                    /\ result.kwargs.timeout = resolved
                    /\ result.kwargs.request_timeout = resolved
              /\ resolved = PyNone =>
                    /\ result.kwargs.timeout = NoKey
                    /\ result.kwargs.request_timeout = NoKey

\* an azure chat model built with the role's request_timeout, the role's
\* timeout being null, its timeout_seconds and the provider's timeout set too
C21_Witness ==
    /\ args.fn = "get_chat_model"
    /\ result # NotCalled
    /\ result.outcome = "init_chat_model"
    /\ args.role_cfg.backend = "azure"
    /\ args.role_cfg.timeout = PyNone
    /\ args.role_cfg.request_timeout = Num(6)
    /\ args.role_cfg.timeout_seconds = Num(7)
    /\ args.api_cfg.timeout = Num(10)
    /\ result.kwargs.timeout = Num(6)
    /\ result.kwargs.request_timeout = Num(6)

\* every element of a list of the score is a string
OnlyStrings(l) == \A i \in 1..Len(l) : l[i].t = "str"

\* C22: after an evaluation that parsed its responses, every
\* list-of-strings field of the ObjectivityScore (the bias analysis'
\* missing_counter_evidence and confirmation_bias_indicators, the source
\* analysis' missing_citations, unsupported_claims, counter_evidence_gaps)
\* holds strings only.
C22_ScoreListsHoldOnlyStrings ==
    (args.fn = "evaluate_report" /\ result # NotCalled) =>
        /\ OnlyStrings(result.bias_metrics.missing_counter_evidence.v)
        /\ OnlyStrings(result.bias_metrics.confirmation_bias_indicators.v)
        /\ OnlyStrings(result.source_quality.missing_citations.v)
        /\ OnlyStrings(result.unsupported_claims)
        /\ OnlyStrings(result.counter_evidence_gaps)

\* C23: whenever the refinement step calls the writer, the refinement
\* instruction it sends embeds the report that is final_report at that
\* moment.
C23_RefinementPromptEmbedsCurrentReport ==
    (pc = "refine_report" /\ red_team_feedback # Absent) =>
        red_team_feedback.refinement_prompt.report = final_report

\* C24: both iteration counters move in steps of exactly one: an evaluation
\* that produces a score increments red_team_iteration_count by 1 and
\* appends one history entry whose iteration field is the new counter value,
\* the earlier entries staying as they were; a refinement step that returns
\* increments refinement_iterations by 1; no other step changes a counter
\* or the history.
C24_CountersStepByOne ==
    [][/\ (pc = "red_team_evaluation" /\ cycle'.outcome = "scored") =>
            /\ red_team_iteration_count' = red_team_iteration_count + 1
            /\ Len(red_team_feedback_history') =
                   Len(red_team_feedback_history) + 1
            /\ SubSeq(red_team_feedback_history', 1,
                      Len(red_team_feedback_history)) = red_team_feedback_history
            /\ red_team_feedback_history'[Len(red_team_feedback_history')].iteration
                   = red_team_iteration_count'
            /\ refinement_iterations' = refinement_iterations
       /\ (pc = "refine_report" /\ pc' # "raised") =>
            /\ refinement_iterations' = refinement_iterations + 1
            /\ red_team_iteration_count' = red_team_iteration_count
            /\ red_team_feedback_history' = red_team_feedback_history
       /\ (/\ ~(pc = "red_team_evaluation" /\ cycle'.outcome = "scored")
           /\ ~(pc = "refine_report" /\ pc' # "raised")) =>
            /\ refinement_iterations' = refinement_iterations
            /\ red_team_iteration_count' = red_team_iteration_count
            /\ red_team_feedback_history' = red_team_feedback_history]_vars

\* a second evaluation produced a score after one refinement
C24_Witness ==
    /\ red_team_iteration_count = 2
    /\ refinement_iterations = 1
    /\ Len(red_team_feedback_history) = 2
    /\ red_team_feedback_history[1].iteration = 1
    /\ red_team_feedback_history[2].iteration = 2
    /\ cycle.outcome = "scored"

\* C25: after override_provider(name, P) for the configured backend, a
\* search issued through tavily_search_multiple goes through P and through
\* a client built by P, also when a search had run before the override.
C25_SearchUsesOverridingProvider ==
    (/\ last_call.fn = "tavily_search_multiple"
     /\ last_call.outcome = "returned"
     /\ last_call.after.backend # None
     /\ last_call.after.backend = last_call.backend)
    => /\ last_call.provider = last_call.after.provider
       /\ last_call.client.provider = last_call.after.provider
       /\ last_call.defaults.defaults_of = last_call.after.provider

\* C26: a session executes at most 6 + 2 * MAX_REFINEMENT_ITERATIONS
\* top-level workflow steps; with the default maximum of 3 that is 12 steps,
\* fewer than every recursion limit the drivers configure.
C26_StepsWithinRecursionLimit ==
    /\ TopLevelSteps <= 6 + 2 * env.MAX_REFINEMENT_ITERATIONS
    /\ env.MAX_REFINEMENT_ITERATIONS = 3 =>
          /\ TopLevelSteps <= 12
          /\ \A limit \in RecursionLimits : TopLevelSteps < limit

\* a session with the default maximum used all of its 12 steps and finalized
C26_Witness ==
    /\ env.MAX_REFINEMENT_ITERATIONS = 3
    /\ TopLevelSteps = 12
    /\ refinement_runs = 3
    /\ evaluation_runs = 4
    /\ pc = "END"

\* C27: a failure of the writer call in the refinement step does not break
\* the session: the session never ends with an exception raised out of the
\* refinement step (the step the router's verdict refine_report leads to).
C27_RefinementFailureNotFatal ==
    pc = "raised" => decision # "refine_report"

\* the priority issues about the overall score
ScoreIssues ==
    {"Overall objectivity score is below acceptable threshold",
     "Overall objectivity score needs improvement"}

\* C28: whenever the verdict is refine_report, the feedback handed to the
\* refinement step holds a priority issue about the score, of severity
\* critical or high, whatever MIN_OBJECTIVITY_SCORE is configured.
C28_RefineImpliesScoreIssue ==
    pc = "refine_report" =>
        /\ red_team_feedback # Absent
        /\ \E i \in 1..Len(red_team_feedback.priority_issues) :
              /\ red_team_feedback.priority_issues[i].issue \in ScoreIssues
              /\ red_team_feedback.priority_issues[i].severity
                     \in {"critical", "high"}

\* C28, amended: whenever the verdict is refine_report and the configured
\* MIN_OBJECTIVITY_SCORE is at most 0.75 (the fixed reporting target of the
\* feedback), the feedback handed to the refinement step holds a priority
\* issue about the score, of severity critical or high.
C28_RefineImpliesScoreIssueUpToTarget ==
    (pc = "refine_report" /\ env.MIN_OBJECTIVITY_SCORE <= 7500) =>
        /\ red_team_feedback # Absent
        /\ \E i \in 1..Len(red_team_feedback.priority_issues) :
              /\ red_team_feedback.priority_issues[i].issue \in ScoreIssues
              /\ red_team_feedback.priority_issues[i].severity
                     \in {"critical", "high"}

\* a refinement was requested under the threshold 0.75 for a score between
\* 0.5 and 0.6, and the feedback reports the score as critical
C28_Witness ==
    /\ pc = "refine_report"
    /\ env.MIN_OBJECTIVITY_SCORE = 7500
    /\ red_team_evaluation.overall_score >= 5000
    /\ red_team_evaluation.overall_score < 6000
    /\ red_team_feedback.priority_issues[1].severity = "critical"
    /\ red_team_feedback.priority_issues[1].issue \in ScoreIssues

\* C29: whenever the refinement step runs, the state holds a
\* red_team_feedback with a refinement prompt (built around a report that
\* was generated), so the step never takes its no-feedback branch.
C29_RefinementAlwaysHasFeedback ==
    pc = "refine_report" =>
        /\ red_team_feedback # Absent
        /\ red_team_feedback.refinement_prompt.report \in 1..reports_generated

\* a refinement was requested after an evaluation cycle that failed: the
\* feedback of an earlier cycle is still in the state
C29_Witness ==
    /\ pc = "refine_report"
    /\ cycle.outcome = "failed"
    /\ refinement_iterations = 1
    /\ red_team_feedback # Absent

\* C30: at every decision point red_team_iteration_count is at most
\* refinement_iterations + 1, with equality exactly when every evaluation
\* of the session produced a score (none was skipped, none failed); a
\* refinement is preceded by at least one evaluation that produced a score.
C30_EvaluationsLeadRefinementsByOne ==
    /\ pc = "should_refine_report" =>
          /\ red_team_iteration_count <= refinement_iterations + 1
          /\ (red_team_iteration_count = refinement_iterations + 1)
                 <=> (evaluation_runs = red_team_iteration_count)
    /\ pc = "refine_report" => red_team_iteration_count >= 1

\* a decision point after two refinements where one of the three
\* evaluations produced no score
C30_Witness ==
    /\ pc = "should_refine_report"
    /\ refinement_iterations = 2
    /\ evaluation_runs = 3
    /\ red_team_iteration_count = 2
====
